---- MODULE Spec2Model ----
(***************************************************************************)
(* Dialpad webhook relay: POST /webhook is rate limited, its JWT body is   *)
(* verified (HS256 only) and the decoded event is broadcast to the         *)
(* connected Socket.IO clients (src/server.js).  The producer-side retry   *)
(* client is src/test-rate-limit-retry.js.                                 *)
(***************************************************************************)
EXTENDS Integers, Sequences, FiniteSets, TLC

VARIABLES
    WEBHOOK_SECRET,         \* process.env.DIALPAD_WEBHOOK_SECRET ("" when unset)
    RATE_LIMIT_MAX,         \* parseInt(process.env.RATE_LIMIT_MAX) || 1200
    command,                \* retry client: process.argv[2], the test to run
    now,                    \* Date.now(), milliseconds
    store,                  \* the limiter's window for the single source key
    rateLimitWarningCount,
    lastRateLimitWarning,
    connectedClients,
    clientInfo,             \* Map: socket id -> [eventsReceived]
    rooms,                  \* socket id -> rooms joined through 'subscribe'
    subscribedTypes,        \* socket id -> the event types of the consumer's
                            \* latest subscribe request ({} before the first)
    proc,                   \* the server process: running, closing or exited
    probe,                  \* the last response of an introspection endpoint
    consumer,               \* socket id -> the consumer's end: the state of its
                            \* link, the messages written to it and not yet
                            \* taken, in order, and the messages taken off it
    nextSocket,             \* the next unused socket id
    delivered,              \* messages handed to sockets: [to, ev, req]
    requests,               \* POST /webhook submissions: slot -> record; responses
                            \* counts the res.status(..).json(..) calls made on it
    subs,                   \* retry client: one record per sendWebhookWithRetry call
    stats                   \* retry client: stats

vars == << WEBHOOK_SECRET, RATE_LIMIT_MAX, command, proc, probe, now, store, rateLimitWarningCount,
           lastRateLimitWarning, connectedClients, clientInfo, rooms,
           subscribedTypes, consumer, nextSocket, delivered, requests, subs, stats >>

\* Everything but the clock and the retry client's records
serverVars == << WEBHOOK_SECRET, RATE_LIMIT_MAX, command, proc, probe, store, rateLimitWarningCount,
                 lastRateLimitWarning, connectedClients, clientInfo, rooms,
                 subscribedTypes, consumer, nextSocket, delivered, requests >>

clientVars == << subs, stats >>

-----------------------------------------------------------------------------
(* Bounds of the model *)

MaxReqs == 2            \* webhook submissions of the pipeline specification
MaxBurst == 3           \* submissions of the admission specification
MaxSockets == 1         \* sockets ever connected in the pipeline specification
MaxFanout == 5          \* sockets ever connected in the fan-out specification
MaxFanoutReqs == 1      \* webhook submissions of the fan-out specification
MaxDepartures == MaxFanoutReqs       \* disconnections of the fan-out specification
MaxFiltered == MaxFanoutReqs + 1     \* subscribed sockets of the fan-out specification
MaxRateLimit == 2       \* largest configured RATE_LIMIT_MAX
Epoch == 100000         \* Date.now() when the server starts
TickMs == 20000         \* granularity of the clock
MaxTicks == 4           \* clock ticks of one behaviour
MaxTicksPipeline == 1   \* clock ticks of the pipeline specification
MaxSubs == 3            \* totalRequests: sendWebhookWithRetry calls of one run
BatchSize == 2          \* concurrentRequests: submissions sent together
MaxAttempt == 7         \* largest attempt number the delay is computed for
MaxRunReqs == 4         \* requests that reach the server in one run of the load test
MaxSubscribers == 2     \* sockets ever connected in the subscription specification
MaxReruns == 2          \* repeated runs of a disconnect listener
MaxReplies == 1         \* acknowledgements and pongs of one behaviour
MaxSubscribes == 2      \* acknowledgements and pongs of the subscription specifications

-----------------------------------------------------------------------------
(* Program constants *)

ALLOWED_ALGORITHM == "HS256"
RATE_LIMIT_WINDOW_MS == 60 * 1000
RATE_LIMIT_WARNING_INTERVAL == 5000

\* JavaScript's undefined.  It is no string: the marker that stands for it
\* is never the name of a room, an event type or a field, and the
\* operators that look a value up among strings treat it apart.
Undefined == "<undefined>"
NoExp == -1                 \* a payload without an exp claim

Min(a, b) == IF a <= b THEN a ELSE b

\* Math.ceil(a / b) for a >= 0, b > 0
Ceil(a, b) == (a + b - 1) \div b

-----------------------------------------------------------------------------
(* Tokens.  A body is a sequence of characters; the characters that matter  *)
(* are whitespace, quotes, dots and the base64url runs between the dots.    *)
(* A run is named by what it decodes to; a signature run by the key and the *)
(* signing input it was computed over.                                      *)

WS == << "ws" >>
QT == << "qt" >>
DOT == << "dot" >>
Raw == << "raw" >>                  \* bytes that are not JSON when decoded
JsonNull == << "hdr", "null" >>     \* base64 of the JSON text null
B64Header(alg) == << "hdr", alg >>  \* base64url of {"alg": alg, "typ": "JWT"}
B64Payload(name) == << "pay", name >>

\* HMAC-SHA256 of "header.payload" under key, base64url encoded
Hmac(key, header, payload) == << "sig", key, header, payload >>

\* jwt.sign(payload, secret, { algorithm })
JwtSign(name, secret, alg) ==
    << B64Header(alg), DOT, B64Payload(name), DOT,
       Hmac(secret, B64Header(alg), B64Payload(name)) >>

\* const eventTypes = [..] of generateTestEvent
TestEventTypes == << "call.created", "call.ended", "sms.inbound", "voicemail.created" >>

\* The events of the load test, by index 0, 1, ..: each has its own data.id.
TestEvents ==
    << "test0", "test1", "test2", "test3", "test4", "test5", "test6", "test7" >>
TestIndex(name) == (CHOOSE i \in 1..Len(TestEvents) : TestEvents[i] = name) - 1
ReservedType == "disconnect"

\* socket.id: the string Socket.IO gives the c-th socket that connects
SocketIds == << "sid1", "sid2", "sid3", "sid4", "sid5", "sid6", "sid7", "sid8" >>
SocketId(c) == SocketIds[c]

\* The payloads a producer signs.
PayloadNames ==
    { "call", "ended", "sms", "flat", "notype", "nulldata", "expiring", "reserved",
      "addressed" }
        \cup { TestEvents[i] : i \in 1..Len(TestEvents) }

\* A payload's data is the set of field names of its nested data object;
\* timestamp is the producer's own clock reading.
NoData == { Undefined }
\* data: null, a field that is present and falsy; no field is named so.
NullData == { "<null>" }
CallData ==
    { "call_id", "direction", "from_number", "to_number", "state", "started_at" }
EndedData ==
    { "call_id", "direction", "from_number", "to_number", "state", "duration",
      "disposition", "started_at", "ended_at" }
SmsData == { "message_id", "from_number", "to_number", "text", "received_at" }
TestData ==
    { "id", "call_id", "direction", "from_number", "to_number", "duration", "state" }
ProducerTime == 7

\* others: the payload's fields besides type, data and exp (jwt.sign adds
\* iat).
Payload(type, data, exp) ==
    [type |-> type, data |-> data, exp |-> exp, timestamp |-> ProducerTime,
     others |-> { "timestamp", "iat" }]

\* The object a header run decodes to when it stands in the payload's place:
\* { alg, typ }, without type, data, exp or timestamp.
HeaderClaims ==
    [type |-> Undefined, data |-> NoData, exp |-> NoExp, timestamp |-> 0,
     others |-> { "alg", "typ" }]

PayloadOf(name) ==
    CASE name = "call"     -> Payload("call.created", CallData, NoExp)
      [] name = "ended"    -> Payload("call.ended", EndedData, NoExp)
      [] name = "sms"      -> Payload("sms.inbound", SmsData, NoExp)
      [] name = "flat"     -> Payload("call.created", NoData, NoExp)
      [] name = "notype"   -> Payload(Undefined, CallData, NoExp)
      [] name = "nulldata" -> Payload("call.created", NullData, NoExp)
      [] name = "expiring" -> Payload("call.created", CallData, (Epoch \div 1000) + 10)
      [] name = "reserved" -> Payload(ReservedType, CallData, NoExp)
      [] name = "addressed" -> Payload(SocketId(1), CallData, NoExp)
      [] name \in { TestEvents[i] : i \in 1..Len(TestEvents) } ->
            Payload(TestEventTypes[(TestIndex(name) % Len(TestEventTypes)) + 1],
                    TestData, NoExp)

-----------------------------------------------------------------------------
(* Token extraction: server.js 154-163 *)

RECURSIVE TrimStart(_)
TrimStart(s) == IF s # << >> /\ Head(s) = WS THEN TrimStart(Tail(s)) ELSE s

RECURSIVE TrimEnd(_)
TrimEnd(s) ==
    IF s # << >> /\ s[Len(s)] = WS THEN TrimEnd(SubSeq(s, 1, Len(s) - 1)) ELSE s

\* String.prototype.trim
Trim(s) == TrimEnd(TrimStart(s))

\* Mutant: only the leading quote is removed.
StripLeadingQuote(s) == IF s # << >> /\ Head(s) = QT THEN Tail(s) ELSE s

\* .replace(/^["']|["']$/g, ''): one leading and one trailing quote
StripQuotes(s) ==
    LET a == IF s # << >> /\ Head(s) = QT THEN Tail(s) ELSE s
    IN  IF a # << >> /\ a[Len(a)] = QT THEN SubSeq(a, 1, Len(a) - 1) ELSE a

\* Buffer -> toString('utf8'), object -> JSON.stringify, string as is; then
\* trim and strip.  body.chars is the text of the body in each case.
ExtractToken(body) ==
    LET text == IF body.kind = "buffer" THEN body.chars
                ELSE IF body.kind = "object" THEN body.chars
                ELSE body.chars
    IN  StripQuotes(Trim(text))

\* !token
TokenMissing(token) == token = << >>

\* Mutant: the secret check is skipped.
SecretNeverMissing(secret) == FALSE

\* !WEBHOOK_SECRET
SecretMissing(secret) == secret = ""

\* String.prototype.split('.')
RECURSIVE Split(_)
Split(s) ==
    IF \E i \in 1..Len(s) : s[i] = DOT
    THEN LET i == CHOOSE k \in 1..Len(s) :
                      s[k] = DOT /\ \A j \in 1..(k - 1) : s[j] # DOT
         IN  << SubSeq(s, 1, i - 1) >> \o Split(SubSeq(s, i + 1, Len(s)))
    ELSE << s >>

\* tokenParts.length !== 3
BadFormat(tokenParts) == Len(tokenParts) # 3

\* Buffer.from(segment, 'base64'): the decoder skips the characters that are
\* not of the base64 alphabet, blanks and quotes among them.
Base64Chars(segment) == SelectSeq(segment, LAMBDA ch : ch \notin { WS, QT })

\* JSON.parse(Buffer.from(segment, 'base64').toString()): a JSON object, the
\* JSON value null, or a SyntaxError
ParseHeader(segment) ==
    LET run == Base64Chars(segment)
    IN  IF Len(run) = 1 /\ run[1] = JsonNull
        THEN [kind |-> "null", alg |-> Undefined]
        ELSE IF Len(run) = 1 /\ run[1][1] = "hdr"
        THEN [kind |-> "object", alg |-> run[1][2]]
        ELSE IF Len(run) = 1 /\ run[1][1] = "pay"
        THEN [kind |-> "object", alg |-> Undefined]
        ELSE [kind |-> "invalid", alg |-> Undefined]

\* Mutant: only the algorithm "none" is refused.
AlgorithmNoneRejected(header) == header.alg = "none"

\* header.alg !== ALLOWED_ALGORITHM
AlgorithmRejected(header) == header.alg # ALLOWED_ALGORITHM

NoPayload ==
    [type |-> Undefined, data |-> NoData, exp |-> NoExp, timestamp |-> 0, others |-> {}]

\* The payload segment decodes to JSON text.
PayloadIsJson(segment) == Len(segment) = 1 /\ segment[1][1] \in { "pay", "hdr" }

\* jwt.verify(token, secret, { algorithms: [ALLOWED_ALGORITHM] }) at clock t:
\* the decoded payload, or the name of the error thrown.  The token is
\* decoded first: a segment with a character that is not base64url, an
\* empty header or payload segment and a header that is not a JSON object
\* make an invalid token; under a header of typ JWT the payload is parsed,
\* and a payload that is not JSON throws the SyntaxError of JSON.parse.
\* Then come the signature's presence, the secret's ("secret or public key
\* must be provided"), the algorithm, the signature and the expiry.  The
\* payload returned is whatever JSON object the payload segment holds: for a
\* header run, the header object.
JwtVerify(token, secret, t) ==
    LET parts == Split(token)
        Fail(name) == [error |-> name, payload |-> NoPayload]
    IN  IF Len(parts) # 3 THEN Fail("JsonWebTokenError")
        ELSE IF \E i \in 1..Len(token) : token[i] \in { WS, QT }
             THEN Fail("JsonWebTokenError")
        ELSE IF parts[1] = << >> \/ parts[2] = << >> THEN Fail("JsonWebTokenError")
        ELSE IF ParseHeader(parts[1]).kind # "object" THEN Fail("JsonWebTokenError")
        ELSE IF parts[1][1][1] = "hdr" /\ ~PayloadIsJson(parts[2])
             THEN Fail("SyntaxError")
        ELSE IF parts[3] = << >> THEN Fail("JsonWebTokenError")
        ELSE IF secret = "" THEN Fail("JsonWebTokenError")
        ELSE IF ParseHeader(parts[1]).alg # ALLOWED_ALGORITHM
             THEN Fail("JsonWebTokenError")
        ELSE IF parts[3] # << Hmac(secret, parts[1][1], parts[2][1]) >>
             THEN Fail("JsonWebTokenError")
        ELSE IF parts[2][1] = JsonNull THEN Fail("TypeError")
        ELSE IF parts[2][1][1] # "pay" THEN [error |-> "none", payload |-> HeaderClaims]
        ELSE LET payload == PayloadOf(parts[2][1][2])
             IN  IF payload.exp # NoExp /\ (t \div 1000) >= payload.exp
                 THEN Fail("TokenExpiredError")
                 ELSE [error |-> "none", payload |-> payload]

\* Mutant: a token that fails jwt.verify is answered 403.
CatchStatusForbidden(errorName) ==
    IF errorName = "JsonWebTokenError" THEN 403
    ELSE IF errorName = "TokenExpiredError" THEN 403
    ELSE 500

\* The catch block: server.js 236-253
CatchStatus(errorName) ==
    IF errorName = "JsonWebTokenError" THEN 401
    ELSE IF errorName = "TokenExpiredError" THEN 401
    ELSE 500

CatchError(errorName) ==
    IF errorName = "JsonWebTokenError" THEN "Invalid signature"
    ELSE IF errorName = "TokenExpiredError" THEN "Token expired"
    ELSE "Internal server error"

\* The handler up to and including jwt.verify: the early response it returns,
\* or status 0 and the decoded payload when the token verified.
VerifyStage(body, secret, t) ==
    LET token == ExtractToken(body)
        Answer(st, err) == [status |-> st, error |-> err, decoded |-> NoPayload]
    IN  IF TokenMissing(token) THEN Answer(400, "No token provided")
        ELSE IF SecretMissing(secret) THEN Answer(500, "Server configuration error")
        ELSE IF BadFormat(Split(token)) THEN Answer(400, "Invalid token format")
        ELSE LET header == ParseHeader(Split(token)[1])
             IN  IF header.kind = "invalid"
                 THEN Answer(CatchStatus("SyntaxError"), CatchError("SyntaxError"))
                 ELSE IF header.kind = "null"
                 THEN Answer(CatchStatus("TypeError"), CatchError("TypeError"))
                 ELSE IF AlgorithmRejected(header) THEN Answer(401, "Invalid algorithm")
                 ELSE LET v == JwtVerify(token, secret, t)
                      IN  IF v.error # "none"
                          THEN Answer(CatchStatus(v.error), CatchError(v.error))
                          ELSE [status |-> 0, error |-> "", decoded |-> v.payload]

\* The field names of the decoded payload itself.
TopLevelFields(decoded) ==
    decoded.others
        \cup (IF decoded.type # Undefined THEN { "type" } ELSE {})
        \cup (IF decoded.exp # NoExp THEN { "exp" } ELSE {})
        \cup (IF decoded.data # NoData THEN { "data" } ELSE {})

\* Mutant: the fallback is the payload without its type field.
EventDataMinusType(decoded) ==
    IF decoded.data \notin { NoData, NullData }
    THEN decoded.data
    ELSE TopLevelFields(decoded) \ { "type" }

\* decoded.data || decoded: the nested data when it is truthy
EventData(decoded) ==
    IF decoded.data \notin { NoData, NullData }
    THEN decoded.data
    ELSE TopLevelFields(decoded)

\* Socket.IO refuses to emit its reserved event names: io.to(t).emit(t, ..)
\* throws for them.
ReservedEvents ==
    { "connect", "connect_error", "disconnect", "disconnecting",
      "newListener", "removeListener" }

TypedEmitThrows(eventType) == eventType \in ReservedEvents

-----------------------------------------------------------------------------
(* The admission limiter: rateLimit({ windowMs, max, handler }) *)

\* Mutant: the window is reset only after its boundary has passed.
StoreIncrementLate(st, t) ==
    LET cur == IF st.resetTime < t
               THEN [totalHits |-> 0, resetTime |-> t + RATE_LIMIT_WINDOW_MS]
               ELSE st
    IN  [cur EXCEPT !.totalHits = @ + 1]

\* The fixed window of the limiter's store for the one source key: a hit at
\* or after resetTime opens a new window, and every hit is counted.
StoreIncrement(st, t) ==
    LET cur == IF st.resetTime <= t
               THEN [totalHits |-> 0, resetTime |-> t + RATE_LIMIT_WINDOW_MS]
               ELSE st
    IN  [cur EXCEPT !.totalHits = @ + 1]

\* Mutant: one hit more than max is let through.
LimitExceededOffByOne(totalHits, max) == totalHits > max + 1

\* max: RATE_LIMIT_MAX; the handler runs for a hit beyond it
LimitExceeded(totalHits, max) == totalHits > max

\* Mutant: half the window, in seconds.
RetryAfterHalf == Ceil(RATE_LIMIT_WINDOW_MS, 2000)

\* Mutant: the window length in milliseconds.
RetryAfterMs == RATE_LIMIT_WINDOW_MS

\* retryAfter: Math.ceil(RATE_LIMIT_WINDOW_MS / 1000)
RetryAfter == Ceil(RATE_LIMIT_WINDOW_MS, 1000)

\* Mutant: every blocked request is logged.
WarningAlwaysDue(t, last) == TRUE

\* now - lastRateLimitWarning > RATE_LIMIT_WARNING_INTERVAL
WarningDue(t, last) == t - last > RATE_LIMIT_WARNING_INTERVAL

-----------------------------------------------------------------------------
(* State *)

StringBody(chars) == [kind |-> "string", chars |-> chars]
ObjectBody(chars) == [kind |-> "object", chars |-> chars]

\* A body the parsers refuse: JSON that does not parse under Content-Type
\* application/json, or a text longer than the limit.
MalformedBody == [kind |-> "malformed", chars |-> << Raw >>]

NoEvent == [type |-> Undefined, data |-> NoData, timestamp |-> 0]

IdleRequest ==
    [pc |-> "idle", body |-> StringBody(<< >>), status |-> 0, error |-> "",
     broadcasted |-> 0, retryAfter |-> 0, totalHits |-> 0, window |-> 0,
     handledAt |-> 0, event |-> NoEvent, responses |-> 0, warned |-> 0]

\* A message emitted to socket to: an event of request req, or (req 0) the
\* welcome message, or the seq-th answer to a request of the socket itself.
Message(to, ev, req, types) ==
    [to |-> to, ev |-> ev, req |-> req, types |-> types, seq |-> 0]

NoRetryAfter == -1          \* a response without a retryAfter (undefined)

IdleSub ==
    [pc |-> "idle", attempt |-> 0, sent |-> 0, delay |-> 0, jitter |-> 0,
     status |-> 0, retryAfter |-> NoRetryAfter, outcome |-> "none", since |-> 0]

\* The argument of a consumer's n-th subscribe request: an array of event
\* types, or a single event type as a string.
NoRequest == [kind |-> "none", types |-> {}, n |-> 0]
ArrayRequest(n, eventTypes) == [kind |-> "array", types |-> eventTypes, n |-> n]
StringRequest(n, eventType) == [kind |-> "string", types |-> { eventType }, n |-> n]

\* The answers (acknowledgements and pongs) emitted so far, and the next
\* one to socket c: every emit is a message of its own.
Replies == { m \in delivered : m.seq > 0 }
Reply(c, ev, types) ==
    [Message(c, ev, 0, types) EXCEPT
        !.seq = Cardinality({ m \in Replies : m.to = c }) + 1]

\* A consumer's end when its socket connects, with the welcome message on
\* the link.
NewConsumer(c) ==
    [link |-> "open", got |-> {}, asked |-> NoRequest,
     wire |-> << Message(c, "connected", 0, {}) >>]

\* The messages out are written to a consumer's link, in that order.
Write(end, out) == [end EXCEPT !.wire = @ \o out]

NoExit == -1                \* the process has not exited
FORCE_CLOSE_MS == 10000     \* setTimeout(.., 10000) of shutdown

Running == [state |-> "running", exitCode |-> NoExit, deadline |-> 0]

NoProbe == [endpoint |-> "none", connectedClients |-> 0, total |-> 0, clients |-> << >>]

\* The commands of main() that run a test: simple and load run loadTest,
\* stress runs stressTest.
Commands == { "load", "stress" }

InitStats ==
    [sent |-> 0, success |-> 0, failed |-> 0, retried |-> 0, rateLimited |-> 0,
     websocketReceived |-> 0, endTime |-> 0]

InitServer ==
    /\ now = Epoch
    /\ store = [totalHits |-> 0, resetTime |-> 0]
    /\ rateLimitWarningCount = 0
    /\ lastRateLimitWarning = 0
    /\ connectedClients = 0
    /\ clientInfo = << >>
    /\ rooms = << >>
    /\ subscribedTypes = << >>
    /\ consumer = << >>
    /\ probe = NoProbe
    /\ proc = Running
    /\ nextSocket = 1
    /\ delivered = {}

Init ==
    /\ WEBHOOK_SECRET \in { "k1", "" }
    /\ RATE_LIMIT_MAX = 1
    /\ command = "load"
    /\ InitServer
    /\ requests = [r \in 1..MaxReqs |-> IdleRequest]
    /\ subs = [s \in 1..MaxSubs |-> IdleSub]
    /\ stats = InitStats

-----------------------------------------------------------------------------
(* Socket.IO connections: server.js 69-115 *)

\* Mutant: a new socket is sent the events broadcast before it connected.
ConnectionReplaying(c) ==
    /\ c = nextSocket
    /\ nextSocket' = nextSocket + 1
    /\ connectedClients' = connectedClients + 1
    /\ clientInfo' = clientInfo @@ (c :> [eventsReceived |-> 0])
    /\ rooms' = rooms @@ (c :> { SocketId(c) })
    /\ subscribedTypes' = subscribedTypes @@ (c :> {})
    /\ consumer' = consumer @@
          (c :> Write(NewConsumer(c),
                      SelectSeq([q \in DOMAIN requests |-> Message(c, "dialpad:event", q, {})],
                                LAMBDA m : requests[m.req].status = 200)))
    /\ delivered' = delivered \cup { Message(c, "connected", 0, {}) }
                        \cup { Message(c, "dialpad:event", r, {}) :
                                 r \in { q \in DOMAIN requests : requests[q].status = 200 } }
    /\ UNCHANGED << WEBHOOK_SECRET, RATE_LIMIT_MAX, command, proc, probe, now, store, rateLimitWarningCount,
                    lastRateLimitWarning, requests, subs, stats >>

\* io.on('connection'): Socket.IO has put the socket in the room named by
\* its own id.
Connection(c) ==
    /\ c = nextSocket
    /\ nextSocket' = nextSocket + 1
    /\ connectedClients' = connectedClients + 1
    /\ clientInfo' = clientInfo @@ (c :> [eventsReceived |-> 0])
    /\ rooms' = rooms @@ (c :> { SocketId(c) })
    /\ subscribedTypes' = subscribedTypes @@ (c :> {})
    /\ consumer' = consumer @@ (c :> NewConsumer(c))
    /\ delivered' = delivered \cup { Message(c, "connected", 0, {}) }
    /\ UNCHANGED << WEBHOOK_SECRET, RATE_LIMIT_MAX, command, proc, probe, now, store, rateLimitWarningCount,
                    lastRateLimitWarning, requests, subs, stats >>

\* socket.join(eventTypes): the rooms are added to those already joined
Join(joined, eventTypes) == joined \cup eventTypes

\* Mutant: the acknowledgement is emitted to every socket.
SubscribeAcknowledgedToAll(c, eventTypes) ==
    /\ c \in DOMAIN rooms
    /\ rooms' = [rooms EXCEPT ![c] = Join(@, eventTypes)]
    /\ subscribedTypes' = [subscribedTypes EXCEPT ![c] = eventTypes]
    /\ consumer' = [d \in DOMAIN consumer |->
           Write(IF d = c
                 THEN [consumer[d] EXCEPT !.asked = ArrayRequest(@.n + 1, eventTypes)]
                 ELSE consumer[d],
                 << Reply(d, "subscribed", eventTypes) >>)]
    /\ delivered' = delivered \cup
          { Reply(d, "subscribed", eventTypes) : d \in DOMAIN rooms }
    /\ UNCHANGED << WEBHOOK_SECRET, RATE_LIMIT_MAX, command, proc, probe, now, store, rateLimitWarningCount,
                    lastRateLimitWarning, connectedClients, clientInfo,
                    nextSocket, requests, subs, stats >>

\* socket.on('subscribe') with an array of event types: the rooms are
\* joined and an acknowledgement is emitted, for every request
Subscribe(c, eventTypes) ==
    /\ c \in DOMAIN rooms
    /\ rooms' = [rooms EXCEPT ![c] = Join(@, eventTypes)]
    /\ subscribedTypes' = [subscribedTypes EXCEPT ![c] = eventTypes]
    /\ consumer' = [consumer EXCEPT ![c] =
           Write([@ EXCEPT !.asked = ArrayRequest(@.n + 1, eventTypes)],
                 << Reply(c, "subscribed", eventTypes) >>)]
    /\ delivered' = delivered \cup { Reply(c, "subscribed", eventTypes) }
    /\ UNCHANGED << WEBHOOK_SECRET, RATE_LIMIT_MAX, command, proc, probe, now, store, rateLimitWarningCount,
                    lastRateLimitWarning, connectedClients, clientInfo,
                    nextSocket, requests, subs, stats >>

\* socket.on('subscribe') with an argument that is not an array: the
\* listener does nothing.
SubscribeNonArray(c, eventType) ==
    /\ c \in DOMAIN rooms
    /\ consumer' = [consumer EXCEPT ![c].asked = StringRequest(@.n + 1, eventType)]
    /\ UNCHANGED << WEBHOOK_SECRET, RATE_LIMIT_MAX, command, proc, probe, now, store, rateLimitWarningCount,
                    lastRateLimitWarning, connectedClients, clientInfo, rooms,
                    subscribedTypes, nextSocket, delivered, requests, subs, stats >>

\* socket.on('ping'): a pong is emitted to the socket that asked, for every
\* ping
Ping(c) ==
    /\ c \in DOMAIN rooms
    /\ delivered' = delivered \cup { Reply(c, "pong", {}) }
    /\ consumer' = [consumer EXCEPT ![c] = Write(@, << Reply(c, "pong", {}) >>)]
    /\ UNCHANGED << WEBHOOK_SECRET, RATE_LIMIT_MAX, command, proc, probe, now, store, rateLimitWarningCount,
                    lastRateLimitWarning, connectedClients, clientInfo, rooms,
                    subscribedTypes, nextSocket, requests, subs, stats >>

Without(f, c) == [x \in DOMAIN f \ {c} |-> f[x]]

\* Mutant: the listener forgets the counter.
DisconnectHandlerUncounted(c) ==
    /\ connectedClients' = connectedClients
    /\ clientInfo' = Without(clientInfo, c)

\* The listener socket.on('disconnect', ..) of socket c
DisconnectHandler(c) ==
    /\ connectedClients' = connectedClients - 1
    /\ clientInfo' = Without(clientInfo, c)

\* Socket c closes: Socket.IO takes it out of its rooms and runs the
\* listener.
Disconnect(c) ==
    /\ c \in DOMAIN rooms
    /\ DisconnectHandler(c)
    /\ rooms' = Without(rooms, c)
    /\ subscribedTypes' = Without(subscribedTypes, c)
    /\ consumer' = Without(consumer, c)
    /\ UNCHANGED << WEBHOOK_SECRET, RATE_LIMIT_MAX, command, proc, probe, now, store, rateLimitWarningCount,
                    lastRateLimitWarning, nextSocket, delivered, requests, subs, stats >>

\* The listener of a socket that has already closed is run once more (the
\* 'disconnect' event is emitted on the socket object a second time).
DisconnectAgain(c) ==
    /\ c \in 1..(nextSocket - 1) /\ c \notin DOMAIN rooms
    /\ Cardinality(DOMAIN clientInfo) - connectedClients < MaxReruns
    /\ DisconnectHandler(c)
    /\ UNCHANGED << WEBHOOK_SECRET, RATE_LIMIT_MAX, command, proc, probe, now, store, rateLimitWarningCount,
                    lastRateLimitWarning, rooms, subscribedTypes, consumer, nextSocket,
                    delivered, requests, subs, stats >>

\* app.get('/health')
Health ==
    /\ probe' = [endpoint |-> "health", connectedClients |-> connectedClients,
                 total |-> 0, clients |-> << >>]
    /\ UNCHANGED << WEBHOOK_SECRET, RATE_LIMIT_MAX, command, proc, now, store, rateLimitWarningCount,
                    lastRateLimitWarning, connectedClients, clientInfo, rooms,
                    subscribedTypes, consumer, nextSocket, delivered, requests, subs,
                    stats >>

\* Array.from(clientInfo.values()).map(..): one entry per registry entry
ClientList(info) ==
    [c \in DOMAIN info |-> [id |-> c, eventsReceived |-> info[c].eventsReceived]]

\* Mutant: the limiter is mounted on every route, /clients included.
ClientsLimited ==
    /\ probe' = [endpoint |-> "clients", connectedClients |-> 0,
                 total |-> connectedClients, clients |-> ClientList(clientInfo)]
    /\ store' = StoreIncrement(store, now)
    /\ UNCHANGED << WEBHOOK_SECRET, RATE_LIMIT_MAX, command, proc, now, rateLimitWarningCount,
                    lastRateLimitWarning, connectedClients, clientInfo, rooms,
                    subscribedTypes, consumer, nextSocket, delivered, requests, subs,
                    stats >>

\* app.get('/clients')
Clients ==
    /\ probe' = [endpoint |-> "clients", connectedClients |-> 0,
                 total |-> connectedClients, clients |-> ClientList(clientInfo)]
    /\ UNCHANGED << WEBHOOK_SECRET, RATE_LIMIT_MAX, command, proc, now, store, rateLimitWarningCount,
                    lastRateLimitWarning, connectedClients, clientInfo, rooms,
                    subscribedTypes, consumer, nextSocket, delivered, requests, subs,
                    stats >>

\* Mutant: the connections are closed before the notice is emitted.
ShutdownClosingFirst ==
    /\ proc.state # "exited"
    /\ proc' = [state |-> "closing", exitCode |-> NoExit,
                deadline |-> IF proc.state = "closing" THEN proc.deadline
                             ELSE now + FORCE_CLOSE_MS]
    /\ connectedClients' = connectedClients - Cardinality(DOMAIN rooms)
    /\ clientInfo' = [c \in DOMAIN clientInfo \ DOMAIN rooms |-> clientInfo[c]]
    /\ rooms' = << >>
    /\ subscribedTypes' = << >>
    /\ consumer' = << >>
    /\ UNCHANGED << WEBHOOK_SECRET, RATE_LIMIT_MAX, command, probe, now, store,
                    rateLimitWarningCount, lastRateLimitWarning, nextSocket, delivered,
                    requests, subs, stats >>

\* shutdown(), on SIGTERM or SIGINT: the notice is emitted to every
\* connected socket; io.close then closes every socket within the call,
\* which runs the disconnect listener of each, and stops the HTTP server
\* from accepting; the forced exit is scheduled.  A second signal runs it
\* again; the timer of the first stays the earliest.
Shutdown ==
    /\ proc.state # "exited"
    /\ delivered' = delivered \cup
          { Message(c, "server:shutdown", 0, {}) : c \in DOMAIN rooms }
    /\ proc' = [state |-> "closing", exitCode |-> NoExit,
                deadline |-> IF proc.state = "closing" THEN proc.deadline
                             ELSE now + FORCE_CLOSE_MS]
    /\ connectedClients' = connectedClients - Cardinality(DOMAIN rooms)
    /\ clientInfo' = [c \in DOMAIN clientInfo \ DOMAIN rooms |-> clientInfo[c]]
    /\ rooms' = << >>
    /\ subscribedTypes' = << >>
    /\ consumer' = << >>
    /\ UNCHANGED << WEBHOOK_SECRET, RATE_LIMIT_MAX, command, probe, now, store,
                    rateLimitWarningCount, lastRateLimitWarning, nextSocket, requests,
                    subs, stats >>

\* The requests the HTTP server is still serving.
InFlight == { r \in DOMAIN requests : requests[r].pc \in { "arrived", "admitted" } }

\* The callbacks of io.close and httpServer.close have run: no request is
\* being served any more; process.exit(0).
Closed ==
    /\ proc.state = "closing"
    /\ DOMAIN rooms = {} /\ InFlight = {}
    /\ proc' = [proc EXCEPT !.state = "exited", !.exitCode = 0]
    /\ UNCHANGED << WEBHOOK_SECRET, RATE_LIMIT_MAX, command, probe, now, store,
                    rateLimitWarningCount, lastRateLimitWarning, connectedClients,
                    clientInfo, rooms, subscribedTypes, consumer, nextSocket, delivered,
                    requests, subs, stats >>

\* The timer of shutdown fires: process.exit(1).
ForcedExit ==
    /\ proc.state = "closing"
    /\ now >= proc.deadline
    /\ proc' = [proc EXCEPT !.state = "exited", !.exitCode = 1]
    /\ UNCHANGED << WEBHOOK_SECRET, RATE_LIMIT_MAX, command, probe, now, store,
                    rateLimitWarningCount, lastRateLimitWarning, connectedClients,
                    clientInfo, rooms, subscribedTypes, consumer, nextSocket, delivered,
                    requests, subs, stats >>

\* The clock advances.
Tick(limit) ==
    /\ now + TickMs <= Epoch + limit * TickMs
    /\ now' = now + TickMs
    /\ UNCHANGED << serverVars, clientVars >>

-----------------------------------------------------------------------------
(* POST /webhook: server.js 41-62 and 151-254 *)

\* A producer's submission reaches the server.
Submit(r, body) ==
    /\ requests[r].pc = "idle"
    /\ \A q \in 1..(r - 1) : requests[q].pc # "idle"
    /\ requests' = [requests EXCEPT ![r] = [@ EXCEPT !.pc = "arrived", !.body = body]]
    /\ UNCHANGED << WEBHOOK_SECRET, RATE_LIMIT_MAX, command, proc, probe, now, store, rateLimitWarningCount,
                    lastRateLimitWarning, connectedClients, clientInfo, rooms,
                    subscribedTypes, consumer, nextSocket, delivered, subs, stats >>

\* A body parser refuses the body and passes its error to the error-handling
\* middleware, which answers 500; the limiter and the route handler do not
\* run.
BodyParserError(r) ==
    /\ requests[r].pc = "arrived"
    /\ requests[r].body.kind = "malformed"
    /\ requests' = [requests EXCEPT ![r] =
           [@ EXCEPT !.pc = "done", !.status = 500, !.error = "Internal server error",
                     !.handledAt = now, !.responses = @ + 1]]
    /\ UNCHANGED << WEBHOOK_SECRET, RATE_LIMIT_MAX, command, proc, probe, now, store, rateLimitWarningCount,
                    lastRateLimitWarning, connectedClients, clientInfo, rooms,
                    subscribedTypes, consumer, nextSocket, delivered, subs, stats >>

\* webhookLimiter, reached by a request whose body the parsers passed on: the
\* hit is counted; beyond max the handler answers 429, otherwise the request
\* goes on to the route handler.
WebhookLimiter(r) ==
    /\ requests[r].pc = "arrived"
    /\ requests[r].body.kind # "malformed"
    /\ store' = StoreIncrement(store, now)
    /\ IF LimitExceeded(store'.totalHits, RATE_LIMIT_MAX)
       THEN /\ IF WarningDue(now, lastRateLimitWarning)
               THEN /\ lastRateLimitWarning' = now
                    /\ rateLimitWarningCount' = 0
               ELSE /\ rateLimitWarningCount' = rateLimitWarningCount + 1
                    /\ UNCHANGED lastRateLimitWarning
            /\ requests' = [requests EXCEPT ![r] =
                   [@ EXCEPT !.pc = "done", !.status = 429,
                             !.error = "Too many requests",
                             !.retryAfter = RetryAfter,
                             !.totalHits = store'.totalHits,
                             !.window = store'.resetTime,
                             !.handledAt = now, !.responses = @ + 1,
                             !.warned = IF WarningDue(now, lastRateLimitWarning)
                                        THEN rateLimitWarningCount + 1 ELSE 0]]
       ELSE /\ requests' = [requests EXCEPT ![r] =
                   [@ EXCEPT !.pc = "admitted",
                             !.totalHits = store'.totalHits,
                             !.window = store'.resetTime]]
            /\ UNCHANGED << rateLimitWarningCount, lastRateLimitWarning >>
    /\ UNCHANGED << WEBHOOK_SECRET, RATE_LIMIT_MAX, command, proc, probe, now, connectedClients, clientInfo,
                    rooms, subscribedTypes, consumer, nextSocket, delivered, subs,
                    stats >>

\* Mutant: the global message goes only to the sockets that joined no room.
UnsubscribedRecipients(rms) == { c \in DOMAIN rms : rms[c] = { SocketId(c) } }

\* Mutant: the first socket stays on the broadcast list after it closed.
StaleRecipients(rms) == DOMAIN rms \cup { 1 }

\* Mutant: the first socket is left out of the broadcast.
LaterRecipients(rms) == DOMAIN rms \ { 1 }

\* io.emit('dialpad:event', event): every connected socket
GlobalRecipients(rms) == DOMAIN rms

\* io.to(eventType).emit(eventType, event): the sockets in the room.  The
\* rooms a socket joins are strings, so the room undefined has nobody in it.
RoomRecipients(rms, eventType) ==
    { c \in DOMAIN rms : eventType # Undefined /\ eventType \in rms[c] }

\* Mutant: every increment starts from the count the socket connected with.
CountEventStale(info) == [c \in DOMAIN info |-> [info[c] EXCEPT !.eventsReceived = 1]]

\* clientInfo.forEach((info) => { info.eventsReceived++; })
CountEvent(info) == [c \in DOMAIN info |-> [info[c] EXCEPT !.eventsReceived = @ + 1]]

\* broadcasted: connectedClients
Broadcasted(count) == count

\* The route handler of an admitted request, from token extraction to the
\* response.
\* Mutant: the envelope carries the producer's timestamp.
EventTimestampOfPayload(decoded, t) == decoded.timestamp

\* timestamp: new Date().toISOString()
EventTimestamp(decoded, t) == t

\* io.emit writes the packet to each socket's transport and returns: it
\* takes no acknowledgement and no socket's failed write comes back to the
\* caller.
GlobalEmitThrowsOnBrokenLink(cons) == \E c \in DOMAIN cons : cons[c].link = "broken"

GlobalEmitThrows(cons) == FALSE

WebhookHandler(r) ==
    /\ requests[r].pc = "admitted"
    /\ LET v == VerifyStage(requests[r].body, WEBHOOK_SECRET, now)
           eventType == v.decoded.type
           event == [type |-> eventType, data |-> EventData(v.decoded),
                     timestamp |-> EventTimestamp(v.decoded, now)]
           global == { Message(c, "dialpad:event", r, {}) : c \in GlobalRecipients(rooms) }
           scoped == { Message(c, eventType, r, {}) : c \in RoomRecipients(rooms, eventType) }
           OutTo(c, typed) ==
               (IF c \in GlobalRecipients(rooms)
                THEN << Message(c, "dialpad:event", r, {}) >> ELSE << >>)
               \o (IF typed /\ c \in RoomRecipients(rooms, eventType)
                   THEN << Message(c, eventType, r, {}) >> ELSE << >>)
       IN  IF v.status # 0
           THEN /\ requests' = [requests EXCEPT ![r] =
                       [@ EXCEPT !.pc = "done", !.status = v.status, !.error = v.error,
                                 !.handledAt = now, !.responses = @ + 1]]
                /\ UNCHANGED << delivered, clientInfo, consumer >>
           ELSE IF GlobalEmitThrows(consumer)
           THEN /\ requests' = [requests EXCEPT ![r] =
                       [@ EXCEPT !.pc = "done", !.status = CatchStatus("Error"),
                                 !.error = CatchError("Error"), !.handledAt = now,
                                 !.event = event, !.responses = @ + 1]]
                /\ UNCHANGED << delivered, clientInfo, consumer >>
           ELSE IF TypedEmitThrows(eventType)
           THEN /\ delivered' = delivered \cup global
                /\ consumer' = [c \in DOMAIN consumer |-> Write(consumer[c], OutTo(c, FALSE))]
                /\ requests' = [requests EXCEPT ![r] =
                       [@ EXCEPT !.pc = "done", !.status = CatchStatus("Error"),
                                 !.error = CatchError("Error"), !.handledAt = now,
                                 !.event = event, !.responses = @ + 1]]
                /\ UNCHANGED clientInfo
           ELSE /\ delivered' = delivered \cup global \cup scoped
                /\ consumer' = [c \in DOMAIN consumer |-> Write(consumer[c], OutTo(c, TRUE))]
                /\ clientInfo' = CountEvent(clientInfo)
                /\ requests' = [requests EXCEPT ![r] =
                       [@ EXCEPT !.pc = "done", !.status = 200,
                                 !.broadcasted = Broadcasted(connectedClients),
                                 !.handledAt = now, !.event = event,
                                 !.responses = @ + 1]]
    /\ UNCHANGED << WEBHOOK_SECRET, RATE_LIMIT_MAX, command, proc, probe, now, store, rateLimitWarningCount,
                    lastRateLimitWarning, connectedClients, rooms, subscribedTypes,
                    nextSocket, subs, stats >>

-----------------------------------------------------------------------------
(* The pipeline specification: one submission with any body, among valid   *)
(* submissions competing for the window                                     *)

Token(name) == JwtSign(name, "k1", "HS256")

\* A token whose payload segment is a copy of its header, signed with the
\* configured secret.
HeaderClaimsToken ==
    << B64Header("HS256"), DOT, B64Header("HS256"), DOT,
       Hmac("k1", B64Header("HS256"), B64Header("HS256")) >>

Bodies ==
    { StringBody(Token("call")),
      StringBody(<< QT >> \o Token("call") \o << QT >>),
      StringBody(<< WS, QT, WS >> \o Token("call") \o << WS, QT, WS >>),
      StringBody(<< QT, QT >> \o Token("call") \o << QT, QT >>),
      StringBody(<< >>),
      StringBody(<< WS >>),
      StringBody(<< WS, QT, QT >>),
      ObjectBody(<< Raw >>),
      MalformedBody,
      StringBody(SubSeq(Token("call"), 1, 3)),
      StringBody(Token("call") \o << DOT, Raw >>),
      StringBody(<< B64Header("none"), DOT, B64Payload("call"), DOT >>),
      StringBody(JwtSign("call", "k1", "HS384")),
      StringBody(JwtSign("call", "k2", "HS256")),
      StringBody(Token("ended")),
      StringBody(Token("expiring")),
      StringBody(<< Raw, DOT, B64Payload("call"), DOT, Raw >>),
      StringBody(<< B64Header("HS256"), DOT, Raw, DOT, Raw >>),
      StringBody(<< JsonNull, DOT, B64Payload("call"), DOT, Raw >>),
      StringBody(Token("reserved")),
      StringBody(Token("notype")),
      StringBody(Token("flat")),
      StringBody(Token("nulldata")),
      StringBody(HeaderClaimsToken) }

SubscribeInputs == { { "call.created" } }

Next ==
    \/ \E body \in Bodies : Submit(1, body)
    \/ \E r \in 2..MaxReqs : Submit(r, StringBody(Token("call")))
    \/ \E r \in 1..MaxReqs : BodyParserError(r)
    \/ \E r \in 1..MaxReqs : WebhookLimiter(r)
    \/ \E r \in 1..MaxReqs : WebhookHandler(r)
    \/ \E c \in 1..MaxSockets : Connection(c)
    \/ \E c \in 1..MaxSockets, eventTypes \in SubscribeInputs :
          Cardinality(Replies) < MaxReplies /\ Subscribe(c, eventTypes)
    \/ /\ \A r \in DOMAIN requests : requests[r].pc = "idle"
       /\ Cardinality(Replies) < MaxReplies
       /\ Ping(1)
    \/ \E c \in 1..MaxSockets : Disconnect(c)
    \/ Tick(MaxTicksPipeline)

Spec == Init /\ [][Next]_vars

-----------------------------------------------------------------------------
(* Vocabulary of the properties *)

Reqs == DOMAIN requests

Done(r) == requests[r].pc = "done"

\* The request reached the route handler and was answered by it.
Handled(r) == Done(r) /\ requests[r].status # 429 /\ requests[r].totalHits > 0

\* A message of request r was handed to some socket.
Emitted(r) == \E m \in delivered : m.req = r

\* The sockets that got the global message of request r.
GlobalReceivers(r) == { m.to : m \in { x \in delivered : x.req = r /\ x.ev = "dialpad:event" } }

\* The body parsers passed the body of the request on.
Parsed(r) == requests[r].body.kind # "malformed"

\* The limiter counted the request within max.
Admitted(r) == requests[r].totalHits \in 1..RATE_LIMIT_MAX

\* The submitted text, without surrounding whitespace and quotes, is the
\* token jwt.sign makes of a payload under the key and algorithm.
SignedWith(r, name, key, alg) ==
    \E pre \in { << >>, << QT >>, << WS >>, << WS, QT >> },
       post \in { << >>, << QT >>, << WS >>, << QT, WS >> } :
        requests[r].body.chars = pre \o JwtSign(name, key, alg) \o post

ExpiredAt(name, t) == PayloadOf(name).exp # NoExp /\ PayloadOf(name).exp * 1000 <= t

\* Non-empty, secret configured, three segments, HS256, signed with the
\* configured secret and not expired when handled.
PassesEveryCheck(r) ==
    /\ WEBHOOK_SECRET # ""
    /\ \E name \in PayloadNames :
          /\ SignedWith(r, name, WEBHOOK_SECRET, "HS256")
          /\ ~ExpiredAt(name, requests[r].handledAt)

\* The segments of the submitted text between its dots, surrounding
\* whitespace and quotes dropped.
Segments(r) == Split(SelectSeq(requests[r].body.chars, LAMBDA ch : ch \notin { WS, QT }))

\* The header segment is the encoding of a JSON header declaring alg.
Declares(r, alg) ==
    /\ Len(Segments(r)) = 3
    /\ Segments(r)[1] = << B64Header(alg) >>

\* The text is empty once whitespace and the surrounding quotes are dropped.
BlankBody(r) ==
    /\ requests[r].body.kind = "string"
    /\ requests[r].body.chars \in
          { << >>, << WS >>, << WS, WS >>, << QT, QT >>, << WS, QT, QT >>,
            << QT, QT, WS >>, << WS, QT, QT, WS >>, << QT >> }

-----------------------------------------------------------------------------
(* Properties of the pipeline *)

\* C1: an event is emitted only for a submission the limiter admitted and
\* whose token passed every verification check, and no message is emitted
\* for a submission answered 400, 401, 429 or 500.
C1_EmitOnlyAccepted ==
    \A r \in Reqs :
        /\ Emitted(r) => Admitted(r) /\ PassesEveryCheck(r)
        /\ Done(r) /\ requests[r].status \in { 400, 401, 429, 500 } => ~Emitted(r)

\* C5 as stated: the admission check and its count increment are made only
\* on a submission whose signature verification has already succeeded.
C5_VerifiedBeforeCounted ==
    \A r \in Reqs : requests[r].totalHits > 0 => PassesEveryCheck(r)

\* C5 amended: the limiter runs first.  Every submission whose body the
\* parsers passed on and that got past arrival was counted, whatever its
\* token; the route handler (verification, normalisation, broadcast) answers
\* only submissions counted within max, and a submission counted beyond max
\* is answered 429 and nothing of it is emitted.
C5_LimiterBeforeVerifier ==
    \A r \in Reqs :
        /\ Parsed(r) /\ requests[r].pc \in { "admitted", "done" } =>
              requests[r].totalHits >= 1
        /\ ~Parsed(r) => requests[r].totalHits = 0 /\ requests[r].pc # "admitted"
        /\ Handled(r) => Admitted(r)
        /\ Emitted(r) => Admitted(r)
        /\ Parsed(r) /\ Done(r) /\ ~Admitted(r) => requests[r].status = 429

\* C5 witness: a submission with a wrongly signed token was counted by the
\* limiter and then refused by the verifier.
C5_Witness ==
    \E r \in Reqs :
        /\ SignedWith(r, "call", "k2", "HS256")
        /\ requests[r].totalHits = 1
        /\ Done(r) /\ requests[r].status = 401

\* C7: a token whose header declares an algorithm other than HS256 is never
\* broadcast, and the route handler (secret configured) answers it 401
\* "Invalid algorithm", whatever its signature segment holds.
C7_AlgorithmMismatch ==
    \A r \in Reqs : \A alg \in { "none", "HS384" } :
        Declares(r, alg) =>
            /\ ~Emitted(r)
            /\ Handled(r) /\ WEBHOOK_SECRET # "" =>
                  requests[r].status = 401 /\ requests[r].error = "Invalid algorithm"

\* C7 witness: an HS384 token carrying a signature made with the configured
\* secret was answered 401.
C7_Witness ==
    \E r \in Reqs :
        /\ SignedWith(r, "call", WEBHOOK_SECRET, "HS384")
        /\ Handled(r) /\ requests[r].status = 401

\* C8: an HS256 token signed with the configured secret and not expired is
\* answered 200, and the same payload signed with another secret is
\* answered 401 "Invalid signature".
C8_SignatureRoundTrip ==
    \A r \in Reqs : \A name \in PayloadNames :
        Handled(r) /\ WEBHOOK_SECRET # "" =>
            /\ SignedWith(r, name, WEBHOOK_SECRET, "HS256")
                  /\ ~ExpiredAt(name, requests[r].handledAt)
                  => requests[r].status = 200
            /\ SignedWith(r, name, "k2", "HS256") /\ WEBHOOK_SECRET # "k2"
                  => requests[r].status = 401 /\ requests[r].error = "Invalid signature"

\* C9: a token that does not split into three segments, or whose header
\* segment does not decode to JSON, is answered 400.
C9_MalformedToken ==
    \A r \in Reqs :
        Handled(r) /\ WEBHOOK_SECRET # "" =>
            /\ Len(Segments(r)) # 3 => requests[r].status = 400
            /\ Len(Segments(r)) = 3 /\ Segments(r)[1] = << Raw >> => requests[r].status = 400

\* C10: a submission whose body is empty, or empty after trimming whitespace
\* and surrounding quotes, is answered 400 "No token provided" by the route
\* handler: the handler returns before the secret check, the token split
\* and jwt.verify, and nothing is emitted.
C10_EmptyBody ==
    \A r \in Reqs :
        BlankBody(r) =>
            /\ ~Emitted(r)
            /\ Handled(r) => requests[r].status = 400 /\ requests[r].error = "No token provided"

\* C10 witness: a body of whitespace and a pair of quotes was answered 400
\* although no secret is configured.
C10_Witness ==
    \E r \in Reqs :
        /\ requests[r].body.chars = << WS, QT, QT >>
        /\ WEBHOOK_SECRET = ""
        /\ Handled(r) /\ requests[r].status = 400

\* C11 as stated: with no secret configured, every submission the route
\* handler answers is answered 500 and nothing is broadcast.
C11_AlwaysMisconfigured ==
    \A r \in Reqs :
        WEBHOOK_SECRET = "" =>
            /\ ~Emitted(r)
            /\ Handled(r) => requests[r].status = 500

\* C11 amended: with no secret configured nothing is broadcast, and the
\* route handler answers a submission whose body holds a token 500 "Server
\* configuration error", whatever the token; a submission whose body is
\* empty after trimming is answered 400 "No token provided" instead.
C11_Misconfigured ==
    \A r \in Reqs :
        WEBHOOK_SECRET = "" =>
            /\ ~Emitted(r)
            /\ Handled(r) /\ ~BlankBody(r) =>
                  requests[r].status = 500
                      /\ requests[r].error = "Server configuration error"
            /\ Handled(r) /\ BlankBody(r) => requests[r].status = 400

\* C11 witness: a well-formed HS256 token was answered 500 "Server
\* configuration error" by a server without a secret, a socket being
\* connected.
C11_Witness ==
    \E r \in Reqs :
        /\ WEBHOOK_SECRET = ""
        /\ SignedWith(r, "call", "k1", "HS256")
        /\ Handled(r) /\ requests[r].status = 500
        /\ requests[r].error = "Server configuration error"
        /\ connectedClients = 1

\* C12: every submission is answered exactly once, with a status in
\* {200, 400, 401, 429, 500}.  The limiter's step on a submission either
\* answers it 429 or hands it unanswered to the route handler; the route
\* handler's step answers it, on each of its paths (every early return, the
\* success path and the catch block); no step touches an answered
\* submission, so none is answered twice.
C12_AnsweredOnce ==
    /\ [](\A r \in Reqs :
            /\ requests[r].responses <= 1
            /\ Done(r) <=> requests[r].responses = 1
            /\ Done(r) => requests[r].status \in { 200, 400, 401, 429, 500 }
            /\ requests[r].pc = "admitted" =>
                  VerifyStage(requests[r].body, WEBHOOK_SECRET, now).status
                      \in { 0, 400, 401, 500 })
    /\ [][\A r \in Reqs :
            /\ requests[r].pc = "arrived" /\ requests'[r] # requests[r] =>
                  \/ requests'[r].pc = "admitted" /\ requests'[r].responses = 0
                  \/ requests'[r].pc = "done" /\ requests'[r].status = 429
                         /\ requests'[r].responses = 1
                  \/ requests'[r].pc = "done" /\ requests'[r].status = 500
                         /\ requests'[r].responses = 1 /\ ~Parsed(r)
                         /\ requests'[r].totalHits = 0
            /\ requests[r].pc = "admitted" /\ requests'[r] # requests[r] =>
                  /\ requests'[r].pc = "done" /\ requests'[r].responses = 1
                  /\ requests'[r].status \in { 200, 400, 401, 500 }
            /\ Done(r) => requests'[r] = requests[r]]_vars

\* C12 witness: one submission was answered 500 by the catch block after
\* its event had gone out, another 429 by the limiter, each once.
C12_Witness ==
    /\ Done(1) /\ requests[1].status = 500 /\ Emitted(1)
    /\ requests[1].responses = 1
    /\ Done(2) /\ requests[2].status = 429 /\ requests[2].responses = 1

\* C14: a verified payload that carries no type field is not broadcast to
\* any consumer and its submission is not answered 200.
C14_MissingEventType ==
    \A r \in Reqs :
        WEBHOOK_SECRET # "" /\ SignedWith(r, "notype", WEBHOOK_SECRET, "HS256") =>
            /\ ~Emitted(r)
            /\ Done(r) => requests[r].status # 200

\* The payload of a submission answered 200.
Accepted(r, name) ==
    /\ Done(r) /\ requests[r].status = 200
    /\ SignedWith(r, name, WEBHOOK_SECRET, "HS256")

\* C15 as stated: the envelope's data is the payload's nested data field
\* whenever the payload carries one, otherwise the entire payload with the
\* type field removed.
C15_DataMinusType ==
    \A r \in Reqs : \A name \in PayloadNames :
        Accepted(r, name) =>
            requests[r].event.data =
                IF PayloadOf(name).data # NoData
                THEN PayloadOf(name).data
                ELSE TopLevelFields(PayloadOf(name)) \ { "type" }

\* C15 amended: the envelope's data is the payload's nested data field
\* whenever that field is truthy; otherwise (no data field, or a falsy one
\* such as null) it is the entire verified payload, its type field
\* included.  So it is for a verified payload that is no event at all: the
\* envelope's data is that object.
C15_DataOrPayload ==
    /\ \A r \in Reqs : \A name \in PayloadNames :
          Accepted(r, name) =>
              requests[r].event.data =
                  IF PayloadOf(name).data \notin { NoData, NullData }
                  THEN PayloadOf(name).data
                  ELSE { "timestamp", "iat" }
                          \cup { f \in { "type" } : PayloadOf(name).type # Undefined }
                          \cup { f \in { "data" } : PayloadOf(name).data = NullData }
    /\ \A r \in Reqs :
          (/\ Done(r) /\ requests[r].status = 200
           /\ requests[r].body = StringBody(HeaderClaimsToken)) =>
              /\ requests[r].event.type = Undefined
              /\ requests[r].event.data = { "alg", "typ" }

\* C15 witness: a payload without a data field was accepted and the
\* envelope's data holds the payload's own fields, type among them.
C15_Witness ==
    \E r \in Reqs :
        /\ Accepted(r, "flat")
        /\ requests[r].event.data = { "type", "timestamp", "iat" }

-----------------------------------------------------------------------------
(* The admission specification: a burst of valid submissions from the one   *)
(* producer while the clock runs over more than one window                  *)

InitAdmission ==
    /\ WEBHOOK_SECRET = "k1"
    /\ RATE_LIMIT_MAX \in 1..MaxRateLimit
    /\ command = "load"
    /\ InitServer
    /\ requests = [r \in 1..MaxBurst |-> IdleRequest]
    /\ subs = [s \in 1..MaxSubs |-> IdleSub]
    /\ stats = InitStats

NextAdmission ==
    \/ \E r \in 1..MaxBurst : Submit(r, StringBody(Token("call")))
    \/ \E r \in 1..MaxBurst : WebhookLimiter(r)
    \/ \E r \in 1..MaxBurst : WebhookHandler(r)
    \/ Tick(MaxTicks)

SpecAdmission == InitAdmission /\ [][NextAdmission]_vars

\* The submissions the limiter counted in the window that ends at w.
CountedIn(w) == { r \in Reqs : requests[r].totalHits > 0 /\ requests[r].window = w }

PassedLimiter(r) ==
    requests[r].pc = "admitted" \/ (Done(r) /\ requests[r].status # 429)

\* C2: of the n submissions the limiter has counted in one window, in
\* whatever order they arrived, min(n, max) were admitted and the other
\* n - min(n, max) were answered 429: for n > max exactly max are admitted,
\* and the admitted never exceed max.
C2_AdmissionAtomic ==
    \A w \in { requests[r].window : r \in Reqs } :
        LET n == Cardinality(CountedIn(w))
            admitted == { r \in CountedIn(w) : PassedLimiter(r) }
            rejected == { r \in CountedIn(w) : Done(r) /\ requests[r].status = 429 }
        IN  /\ Cardinality(admitted) = Min(n, RATE_LIMIT_MAX)
            /\ Cardinality(rejected) = n - Min(n, RATE_LIMIT_MAX)
            /\ Cardinality(admitted) <= RATE_LIMIT_MAX

\* C2 witness: three submissions were in flight together, the limiter
\* counted them in one window with max = 2, and the first submitted is the
\* one answered 429.
C2_Witness ==
    /\ RATE_LIMIT_MAX = 2
    /\ Cardinality(CountedIn(requests[1].window)) = 3
    /\ requests[1].status = 429
    /\ PassedLimiter(2) /\ PassedLimiter(3)

\* C6 as stated: retryAfter is the time remaining in the current window,
\* windowDuration - (now - windowStart), rounded up to whole seconds.
C6_RemainingTime ==
    \A r \in Reqs :
        Done(r) /\ requests[r].status = 429 =>
            LET windowStart == requests[r].window - RATE_LIMIT_WINDOW_MS
            IN  requests[r].retryAfter =
                    Ceil(RATE_LIMIT_WINDOW_MS - (requests[r].handledAt - windowStart), 1000)

\* C6 amended: retryAfter is the whole window duration rounded up to whole
\* seconds (60), however much of the window has elapsed; it is never less
\* than the time remaining.
C6_WholeWindow ==
    \A r \in Reqs :
        Done(r) /\ requests[r].status = 429 =>
            /\ requests[r].retryAfter = 60
            /\ requests[r].retryAfter * 1000 >= requests[r].window - requests[r].handledAt

\* C6 witness: a 429 answered 40 seconds into its window carries 60.
C6_Witness ==
    \E r \in Reqs :
        /\ Done(r) /\ requests[r].status = 429
        /\ requests[r].window - requests[r].handledAt = 20000
        /\ requests[r].retryAfter = 60

\* C13: the window is reset by the first check made at or after
\* windowStart + windowDuration (count back to 0 and then counted: 1,
\* windowStart = now) and by no check made earlier, which only adds to the
\* count; the check that resets the window is admitted, so a source
\* rejected at max capacity is admitted on its first submission after the
\* boundary.  Only a check changes the window.
C13_WindowReset ==
    [][/\ \A r \in Reqs :
            requests[r].pc = "arrived" /\ requests'[r].pc # "arrived" =>
                IF now >= store.resetTime
                THEN /\ store'.totalHits = 1
                     /\ store'.resetTime - RATE_LIMIT_WINDOW_MS = now
                     /\ requests'[r].pc = "admitted"
                ELSE /\ store'.resetTime = store.resetTime
                     /\ store'.totalHits = store.totalHits + 1
       /\ store' # store =>
            \E r \in Reqs : requests[r].pc = "arrived" /\ requests'[r].pc # "arrived"]_vars

\* C13 witness: with max = 1 the second submission was rejected in the
\* first window, and the third, checked exactly at the boundary of that
\* window, opened a new window and was admitted.
C13_Witness ==
    /\ RATE_LIMIT_MAX = 1
    /\ requests[1].window = requests[2].window
    /\ Done(2) /\ requests[2].status = 429
    /\ PassedLimiter(3) /\ requests[3].totalHits = 1
    /\ requests[3].window - RATE_LIMIT_WINDOW_MS = requests[2].window

\* C37: the retryAfter of a 429 covers what is left of the window that
\* rejected the submission, so no submission the limiter checks retryAfter
\* seconds or more after that 429 is counted in that same window.
C37_RetryAfterOutlastsWindow ==
    [][\A q \in Reqs :
          requests[q].pc = "arrived" /\ requests'[q].pc # "arrived" =>
              \A r \in Reqs :
                  /\ Done(r) /\ requests[r].status = 429
                  /\ now >= requests[r].handledAt + requests[r].retryAfter * 1000
                  => /\ requests'[q].window # requests[r].window
                     /\ requests[r].handledAt + requests[r].retryAfter * 1000
                            >= requests[r].window]_vars

\* C37 witness: with max = 1 the second submission was answered 429, and
\* the third, checked once the retryAfter of that answer had passed, was
\* counted first in a new window and admitted.
C37_Witness ==
    /\ RATE_LIMIT_MAX = 1
    /\ Done(2) /\ requests[2].status = 429
    /\ requests[3].totalHits = 1 /\ PassedLimiter(3)
    /\ requests[3].window - RATE_LIMIT_WINDOW_MS
          >= requests[2].handledAt + requests[2].retryAfter * 1000
    /\ requests[3].window # requests[2].window

-----------------------------------------------------------------------------
(* The warning specification: a burst over the limit, max = 1               *)

InitWarnings ==
    /\ WEBHOOK_SECRET = "k1"
    /\ RATE_LIMIT_MAX = 1
    /\ command = "load"
    /\ InitServer
    /\ requests = [r \in 1..(MaxBurst + 1) |-> IdleRequest]
    /\ subs = [s \in 1..MaxSubs |-> IdleSub]
    /\ stats = InitStats

NextWarnings ==
    \/ \E r \in 1..(MaxBurst + 1) : Submit(r, StringBody(Token("call")))
    \/ \E r \in 1..(MaxBurst + 1) : WebhookLimiter(r)
    \/ \E r \in 1..(MaxBurst + 1) : WebhookHandler(r)
    \/ Tick(MaxTicks)

SpecWarnings == InitWarnings /\ [][NextWarnings]_vars

\* The submissions answered 429, those of them whose 429 logged a warning,
\* and the order in which the limiter checked two submissions.
Blocked == { r \in Reqs : Done(r) /\ requests[r].status = 429 }
Warned == { r \in Blocked : requests[r].warned > 0 }
CheckedBefore(r, q) ==
    \/ requests[r].window < requests[q].window
    \/ requests[r].window = requests[q].window
          /\ requests[r].totalHits < requests[q].totalHits

\* The blocked submissions after the last warning before that of q, up to
\* and including q.
SincePreviousWarning(q) ==
    { x \in Blocked :
        /\ x = q \/ CheckedBefore(x, q)
        /\ \A w \in Warned : CheckedBefore(w, q) => CheckedBefore(w, x) }

\* C39: two warnings are never logged within 5 seconds of each other, each
\* warning reports the number of submissions blocked since the previous
\* warning, and the counter holds the number blocked since the last one.
C39_WarningsBatched ==
    /\ \A r, q \in Warned :
          r # q /\ requests[r].handledAt <= requests[q].handledAt =>
              requests[q].handledAt - requests[r].handledAt > RATE_LIMIT_WARNING_INTERVAL
    /\ \A q \in Warned : requests[q].warned = Cardinality(SincePreviousWarning(q))
    /\ rateLimitWarningCount =
          Cardinality({ x \in Blocked : \A w \in Warned : w # x /\ CheckedBefore(w, x) })
    /\ Warned # {} =>
          lastRateLimitWarning \in { requests[w].handledAt : w \in Warned }

\* C39 witness: of three submissions blocked in one window the first logged
\* a warning for 1, the second, at the same moment, logged none, and the
\* third, later, logged a warning for 2.
C39_Witness ==
    /\ Blocked = { 2, 3, 4 }
    /\ requests[2].warned = 1 /\ requests[3].warned = 0 /\ requests[4].warned = 2
    /\ requests[2].handledAt = requests[3].handledAt
    /\ requests[4].window = requests[2].window
    /\ rateLimitWarningCount = 0

-----------------------------------------------------------------------------
(* The fan-out specification: valid events, many sockets *)

InitFanout ==
    /\ WEBHOOK_SECRET = "k1"
    /\ RATE_LIMIT_MAX = MaxRateLimit
    /\ command = "load"
    /\ InitServer
    /\ requests = [r \in 1..MaxFanoutReqs |-> IdleRequest]
    /\ subs = [s \in 1..MaxSubs |-> IdleSub]
    /\ stats = InitStats

\* The consumers connect and subscribe before the first webhook arrives;
\* a bounded number of them leave, at any time.
Quiet == \A r \in Reqs : requests[r].pc = "idle"
Departed == (nextSocket - 1) - Cardinality(DOMAIN rooms)
Filtered == { c \in DOMAIN rooms : rooms[c] # { SocketId(c) } }

NextFanout ==
    \/ \E r \in 1..MaxFanoutReqs, name \in { "call", "sms" } :
          Submit(r, StringBody(Token(name)))
    \/ \E r \in 1..MaxFanoutReqs : WebhookLimiter(r)
    \/ \E r \in 1..MaxFanoutReqs : WebhookHandler(r)
    \/ \E c \in 1..MaxFanout : Quiet /\ Connection(c)
    \/ \E c \in 1..MaxFanout, eventTypes \in SubscribeInputs :
          /\ Quiet
          /\ Cardinality(Filtered \cup {c}) <= MaxFiltered
          /\ Cardinality(Replies) < MaxFiltered
          /\ Subscribe(c, eventTypes)
    \/ Quiet /\ Cardinality(Replies) < MaxFiltered /\ Ping(1)
    \/ \E c \in 1..MaxFanout : Departed < MaxDepartures /\ Disconnect(c)

SpecFanout == InitFanout /\ [][NextFanout]_vars

\* C4: the broadcast of an accepted submission hands the global message to
\* every socket registered at that moment, subscribed or not, and to no
\* other, and the broadcasted count of the 200 response is the number of
\* those sockets.
C4_GlobalFanout ==
    [][\A r \in Reqs :
          requests[r].pc = "admitted" /\ requests'[r].status = 200 =>
              /\ { m.to : m \in { x \in delivered' : x.req = r /\ x.ev = "dialpad:event" } }
                     = DOMAIN clientInfo
              /\ requests'[r].broadcasted = Cardinality(DOMAIN clientInfo)]_vars

\* C4 witness: five sockets with no subscription were registered, all five
\* got the global message and the response said broadcasted: 5.
C4_Witness ==
    \E r \in Reqs :
        /\ Done(r) /\ requests[r].status = 200
        /\ requests[r].broadcasted = 5
        /\ GlobalReceivers(r) = 1..5
        /\ \A c \in 1..5 : c \in DOMAIN rooms /\ rooms[c] = { SocketId(c) }

-----------------------------------------------------------------------------
(* The subscription specification: consumers connect, subscribe and        *)
(* subscribe again before the first webhook arrives, and leave at any time  *)

InitSubscription ==
    /\ WEBHOOK_SECRET = "k1"
    /\ RATE_LIMIT_MAX = MaxRateLimit
    /\ command = "load"
    /\ InitServer
    /\ requests = [r \in 1..MaxFanoutReqs |-> IdleRequest]
    /\ subs = [s \in 1..MaxSubs |-> IdleSub]
    /\ stats = InitStats

SubscriptionInputs == { {}, { "call.created" }, { "sms.inbound" } }

NextSubscription ==
    \/ \E r \in 1..MaxFanoutReqs, name \in { "call", "sms", "addressed" } :
          (r > 1 => name = "call") /\ Submit(r, StringBody(Token(name)))
    \/ \E r \in 1..MaxFanoutReqs : WebhookLimiter(r)
    \/ \E r \in 1..MaxFanoutReqs : WebhookHandler(r)
    \/ \E c \in 1..MaxSubscribers : Quiet /\ Connection(c)
    \/ \E c \in 1..MaxSubscribers, eventTypes \in SubscriptionInputs :
          /\ Quiet
          /\ Cardinality(Replies) < MaxSubscribes
          /\ Subscribe(c, eventTypes)
    \/ \E c \in 1..MaxSubscribers : Disconnect(c)

SpecSubscription == InitSubscription /\ [][NextSubscription]_vars

\* The step is the broadcast of submission r, answered 200.
Broadcasts(r) == requests[r].pc = "admitted" /\ requests'[r].status = 200

\* The broadcast of r hands socket c the type-scoped, or the global, message.
GetsScoped(c, r) == Message(c, requests'[r].event.type, r, {}) \in delivered'
GetsGlobal(c, r) == Message(c, "dialpad:event", r, {}) \in delivered'

\* C16: a registered subscriber whose subscribedTypes (the set of its latest
\* subscribe request) is not empty gets the type-scoped message of a
\* broadcast exactly when the set contains the event's type, and gets the
\* global message of every broadcast.
C16_SubscriptionFilter ==
    [][\A r \in Reqs : Broadcasts(r) =>
          \A c \in DOMAIN clientInfo :
              subscribedTypes[c] # {} =>
                  /\ GetsScoped(c, r) <=> requests'[r].event.type \in subscribedTypes[c]
                  /\ GetsGlobal(c, r)]_vars

\* C17: a registered subscriber whose subscribedTypes is empty gets the
\* type-scoped message of every broadcast, and the global one.
C17_EmptyMeansAll ==
    [][\A r \in Reqs : Broadcasts(r) =>
          \A c \in DOMAIN clientInfo :
              subscribedTypes[c] = {} => GetsScoped(c, r) /\ GetsGlobal(c, r)]_vars

\* C18: a subscribe request replaces the previous subscription: the
\* type-scoped message of a broadcast goes to a subscriber only if the
\* event's type is in the set of its latest subscribe request.
C18_SubscribeReplaces ==
    [][\A r \in Reqs : Broadcasts(r) =>
          \A c \in DOMAIN clientInfo :
              GetsScoped(c, r) => requests'[r].event.type \in subscribedTypes[c]]_vars

\* C32: the timestamp of an envelope is the server's clock reading at the
\* step that handled the submission, and never the timestamp the producer
\* put in the payload.
C32_ServerTimestamp ==
    /\ [](\A r \in Reqs :
            requests[r].event # NoEvent =>
                /\ requests[r].event.timestamp = requests[r].handledAt
                /\ requests[r].event.timestamp >= Epoch
                /\ \A name \in PayloadNames :
                      requests[r].event.timestamp # PayloadOf(name).timestamp)
    /\ [][\A r \in Reqs :
            requests[r].pc = "admitted" /\ requests'[r].event # NoEvent =>
                requests'[r].event.timestamp = now]_vars

\* C32 witness: a submission whose payload carries the producer's timestamp
\* was handled after the clock had advanced, and its envelope carries the
\* later reading.
C32_Witness ==
    /\ Accepted(1, "call")
    /\ PayloadOf("call").timestamp = ProducerTime
    /\ requests[1].event.timestamp = Epoch + TickMs

-----------------------------------------------------------------------------
(* The counting specification: webhook requests that overlap while          *)
(* consumers come and go                                                    *)

InitCounting ==
    /\ WEBHOOK_SECRET = "k1"
    /\ RATE_LIMIT_MAX = MaxRateLimit
    /\ command = "load"
    /\ InitServer
    /\ requests = [r \in 1..MaxReqs |-> IdleRequest]
    /\ subs = [s \in 1..MaxSubs |-> IdleSub]
    /\ stats = InitStats

NextCounting ==
    \/ \E r \in 1..MaxReqs, name \in { "call", "sms", "reserved" } :
          Submit(r, StringBody(Token(name)))
    \/ \E r \in 1..MaxReqs : WebhookLimiter(r)
    \/ \E r \in 1..MaxReqs : WebhookHandler(r)
    \/ \E c \in 1..MaxSubscribers : Connection(c)
    \/ Quiet /\ Cardinality(Replies) < MaxReplies /\ Ping(1)
    \/ \E c \in 1..MaxSubscribers : Disconnect(c)

SpecCounting == InitCounting /\ [][NextCounting]_vars

\* The accepted submissions whose global message socket c was handed.
DeliveredTo(c) ==
    { r \in Reqs : Done(r) /\ requests[r].status = 200 /\ c \in GlobalReceivers(r) }

\* C20: a broadcast answered 200 adds exactly one to eventsReceived of every
\* subscriber it delivered to, no other step changes a counter, and the
\* counter of a registered subscriber is the number of accepted broadcasts
\* delivered to it, however the overlapping webhook requests interleave.
C20_EventsCounted ==
    /\ [](\A c \in DOMAIN clientInfo :
            clientInfo[c].eventsReceived = Cardinality(DeliveredTo(c)))
    /\ [][\A c \in DOMAIN clientInfo \cap DOMAIN clientInfo' :
            LET before == clientInfo[c].eventsReceived
                after == clientInfo'[c].eventsReceived
            IN  /\ (\E r \in Reqs : Broadcasts(r) /\ GetsGlobal(c, r)) => after = before + 1
                /\ after # before => \E r \in Reqs : Broadcasts(r) /\ GetsGlobal(c, r)]_vars

\* C20 witness: a call and an sms submission were both broadcast, and the
\* socket connected throughout counts 2.
C20_Witness ==
    /\ 1 \in DOMAIN clientInfo /\ clientInfo[1].eventsReceived = 2
    /\ DeliveredTo(1) = { 1, 2 }
    /\ requests[1].event.type # requests[2].event.type

\* The messages handed to socket c so far, and after the step.
HandedTo(c) == { m \in delivered : m.to = c }
HandedToNext(c) == { m \in delivered' : m.to = c }

\* The step runs the broadcast of submission r (its event is built).
Emits(r) == requests[r].pc = "admitted" /\ requests'[r].event # NoEvent

\* C21: a disconnection interleaved with broadcasts completes without
\* error (it removes the one subscriber and changes no submission), the
\* broadcasts that follow still reach every subscriber that is left, and
\* once the subscriber is deregistered no step hands it another message or
\* counts for it.
C21_DeregisterDuringBroadcast ==
    [][/\ \A c \in 1..(nextSocket - 1) :
            c \notin DOMAIN clientInfo =>
                HandedToNext(c) = HandedTo(c) /\ c \notin DOMAIN clientInfo'
       /\ \A r \in Reqs : Emits(r) =>
            { m.to : m \in { x \in delivered' : x.req = r /\ x.ev = "dialpad:event" } }
                = DOMAIN clientInfo
       /\ \A c \in DOMAIN clientInfo \ DOMAIN clientInfo' :
            /\ DOMAIN clientInfo' = DOMAIN clientInfo \ { c }
            /\ requests' = requests /\ delivered' = delivered]_vars

\* C21 witness: socket 1 left while the second submission was waiting for
\* the route handler; that broadcast reached socket 2 alone, the earlier one
\* had reached both.
C21_Witness ==
    /\ DeliveredTo(2) = { 1, 2 }
    /\ GlobalReceivers(1) = { 1, 2 }
    /\ GlobalReceivers(2) = { 2 }
    /\ 1 \notin DOMAIN clientInfo
    /\ clientInfo[2].eventsReceived = 2

\* C22: the global message of a submission is handed out only by the one
\* step that runs its broadcast, and only to the consumers registered at
\* that step: a consumer that connects later is handed the welcome message
\* alone, nothing is replayed to it, and no later step hands a consumer the
\* message of a submission again.
C22_NoReplay ==
    [][\A m \in delivered' \ delivered :
          IF m.ev = "dialpad:event"
          THEN /\ Emits(m.req)
               /\ m.to \in DOMAIN clientInfo
               /\ ~\E x \in delivered : x.req = m.req
          ELSE m.req = 0 \/ Emits(m.req)]_vars

\* C22 witness: socket 2 connected after the first submission had been
\* broadcast to socket 1; it was handed nothing of it, and then got the
\* second submission.
C22_Witness ==
    /\ GlobalReceivers(1) = { 1 }
    /\ GlobalReceivers(2) = { 1, 2 }
    /\ requests[1].status = 200 /\ requests[2].status = 200
    /\ { m.ev : m \in HandedTo(2) } = { "connected", "dialpad:event" }

-----------------------------------------------------------------------------
(* The acknowledgement specification: consumers send subscribe requests    *)
(* with an array of event types or with a single type as a string           *)

InitAcknowledgement ==
    /\ WEBHOOK_SECRET = "k1"
    /\ RATE_LIMIT_MAX = MaxRateLimit
    /\ command = "load"
    /\ InitServer
    /\ requests = [r \in 1..MaxFanoutReqs |-> IdleRequest]
    /\ subs = [s \in 1..MaxSubs |-> IdleSub]
    /\ stats = InitStats

NextAcknowledgement ==
    \/ \E c \in 1..MaxSubscribers : Connection(c)
    \/ \E c \in 1..MaxSubscribers, eventTypes \in { {}, { "call.created" } } :
          Cardinality(Replies) <= MaxSubscribes /\ Subscribe(c, eventTypes)
    \/ \E c \in DOMAIN consumer :
          /\ consumer[c].asked.n < MaxSubscribes
          /\ SubscribeNonArray(c, "call.created")
    \/ Cardinality(Replies) <= MaxSubscribes /\ Ping(1)
    \/ \E c \in 1..MaxSubscribers : Disconnect(c)

SpecAcknowledgement == InitAcknowledgement /\ [][NextAcknowledgement]_vars

\* The step carries a subscribe request of consumer c.
Asks(c) ==
    /\ c \in DOMAIN consumer \cap DOMAIN consumer'
    /\ consumer'[c].asked.n = consumer[c].asked.n + 1

\* What the step emits, and whether it is one acknowledgement of the
\* request just made by consumer c, written last to its link.
NewlyEmitted == delivered' \ delivered
Acknowledges(c) ==
    /\ \E m \in NewlyEmitted :
          /\ NewlyEmitted = { m }
          /\ m.to = c /\ m.ev = "subscribed" /\ m.types = consumer'[c].asked.types
          /\ consumer'[c].wire = Append(consumer[c].wire, m)
    /\ \A d \in DOMAIN consumer \ { c } : consumer'[d] = consumer[d]

\* C34 as stated: after a subscribe request the requesting consumer, and no
\* other, is handed an acknowledgement carrying the requested event types.
C34_AlwaysAcknowledged ==
    [][\A c \in 1..MaxSubscribers : Asks(c) => Acknowledges(c)]_vars

\* C34 amended: every subscribe request whose argument is an array of event
\* types, a repeated one included, is answered with one new acknowledgement
\* to the requesting consumer alone, carrying the types requested; a
\* request with any other argument is ignored and nothing is sent for it.
C34_ArrayAcknowledged ==
    [][\A c \in 1..MaxSubscribers : Asks(c) =>
          IF consumer'[c].asked.kind = "array"
          THEN Acknowledges(c)
          ELSE /\ delivered' = delivered
               /\ rooms' = rooms
               /\ \A d \in DOMAIN consumer : consumer'[d].wire = consumer[d].wire]_vars

\* C34 witness: consumer 1 asked for call.created in an array twice and
\* holds two acknowledgements of it; consumer 2 asked for it as a string
\* and was sent nothing beyond its welcome message.
C34_Witness ==
    /\ { 1, 2 } \subseteq DOMAIN consumer
    /\ consumer[1].asked = ArrayRequest(2, { "call.created" })
    /\ { [ev |-> m.ev, types |-> m.types, seq |-> m.seq] : m \in HandedTo(1) } =
          { [ev |-> "connected", types |-> {}, seq |-> 0],
            [ev |-> "subscribed", types |-> { "call.created" }, seq |-> 1],
            [ev |-> "subscribed", types |-> { "call.created" }, seq |-> 2] }
    /\ consumer[2].asked = StringRequest(1, "call.created")
    /\ { m.ev : m \in HandedTo(2) } = { "connected" }

-----------------------------------------------------------------------------
(* The consumer specification: consumers that are slow to take what they    *)
(* were handed, or whose link is lost, while submissions are broadcast      *)

\* process.env.DEBUG === 'true' of the consumer: unset
DEBUG == FALSE

\* The messages written to the link of consumer c that it has not taken,
\* and the one it takes next: the one written first.
Pending(c) == { consumer[c].wire[i] : i \in 1..Len(consumer[c].wire) }
NextUp(c) == IF consumer[c].wire = << >> THEN {} ELSE { Head(consumer[c].wire) }

\* The listener of 'dialpad:event' reads event.type.startsWith(..) outside
\* DEBUG mode: for an event without a type it throws a TypeError.
ListenerThrows(m) ==
    ~DEBUG /\ m.ev = "dialpad:event" /\ requests[m.req].event.type = Undefined

\* One message is taken off the link of consumer c and its listener runs.  An
\* exception thrown by a listener is caught nowhere and ends the consumer's
\* process.
Listen(c, m, throws) ==
    /\ c \in DOMAIN consumer
    /\ consumer[c].link = "open"
    /\ m \in NextUp(c)
    /\ consumer' = [consumer EXCEPT ![c].got = @ \cup { m },
                                    ![c].wire = Tail(@),
                                    ![c].link = IF throws THEN "crashed" ELSE @]
    /\ UNCHANGED << WEBHOOK_SECRET, RATE_LIMIT_MAX, command, proc, probe, now, store, rateLimitWarningCount,
                    lastRateLimitWarning, connectedClients, clientInfo, rooms,
                    subscribedTypes, nextSocket, delivered, requests, subs >>

\* The example consumer takes its next message.
Take(c) == \E m \in delivered : Listen(c, m, ListenerThrows(m)) /\ UNCHANGED stats

\* The WebSocket client of the test script takes its next message: its
\* listener of 'dialpad:event' counts it (stats.websocketReceived++) and
\* does not throw.
Receive(c) ==
    \E m \in delivered :
        /\ Listen(c, m, FALSE)
        /\ stats' = [stats EXCEPT !.websocketReceived =
                                    IF m.ev = "dialpad:event" THEN @ + 1 ELSE @]

\* The consumer's link is lost: what is written to it from now on is not
\* received. The server has not noticed yet (its disconnect listener runs
\* later, as Disconnect).
Break(c) ==
    /\ c \in DOMAIN consumer
    /\ consumer[c].link = "open"
    /\ consumer' = [consumer EXCEPT ![c].link = "broken"]
    /\ UNCHANGED << WEBHOOK_SECRET, RATE_LIMIT_MAX, command, proc, probe, now, store, rateLimitWarningCount,
                    lastRateLimitWarning, connectedClients, clientInfo, rooms,
                    subscribedTypes, nextSocket, delivered, requests, subs, stats >>

InitConsumers ==
    /\ WEBHOOK_SECRET = "k1"
    /\ RATE_LIMIT_MAX = MaxRateLimit
    /\ command = "load"
    /\ InitServer
    /\ requests = [r \in 1..(MaxFanoutReqs + 1) |-> IdleRequest]
    /\ subs = [s \in 1..MaxSubs |-> IdleSub]
    /\ stats = InitStats

NextConsumers ==
    \/ \E r \in 1..(MaxFanoutReqs + 1), name \in { "call", "notype" } :
          (r = 1 => name = "call") /\ Submit(r, StringBody(Token(name)))
    \/ \E r \in 1..(MaxFanoutReqs + 1) : WebhookLimiter(r)
    \/ \E r \in 1..(MaxFanoutReqs + 1) : WebhookHandler(r)
    \/ \E c \in 1..MaxSubscribers : Quiet /\ Connection(c)
    \/ \E c \in 1..MaxSubscribers : Take(c)
    \/ \E c \in 1..MaxSubscribers : Break(c)
    \/ \E c \in DOMAIN consumer : consumer[c].link # "open" /\ Disconnect(c)

SpecConsumers == InitConsumers /\ [][NextConsumers]_vars

\* The consumers that have not taken everything they were handed.
Behind == { c \in DOMAIN consumer : consumer[c].got # HandedTo(c) }

\* C23: a consumer that is behind or whose link is lost changes nothing for
\* the others or for the producer: the step that runs a broadcast answers
\* 200 in that same step, with the count of registered consumers, and hands
\* the message to every registered consumer; no submission ends as an
\* internal failure; a consumer with an open link can always take what it
\* was handed, and its taking it touches no submission and no other
\* consumer.
C23_ConsumersIsolated ==
    /\ [](/\ \A r \in Reqs : Done(r) => requests[r].status \in { 200, 429 }
          /\ \A c \in Behind : consumer[c].link = "open" => ENABLED Take(c))
    /\ [][/\ \A r \in Reqs : Emits(r) =>
                /\ requests'[r].pc = "done" /\ requests'[r].status = 200
                /\ requests'[r].responses = 1
                /\ requests'[r].broadcasted = Cardinality(DOMAIN clientInfo)
                /\ \A c \in DOMAIN clientInfo : GetsGlobal(c, r)
           /\ \A c \in DOMAIN consumer \cap DOMAIN consumer' :
                consumer'[c].got # consumer[c].got =>
                    /\ requests' = requests /\ delivered' = delivered
                    /\ \A d \in DOMAIN consumer \ { c } : consumer'[d] = consumer[d]]_vars

\* C23 witness: both submissions were broadcast to two consumers and
\* answered 200 with the count 2; consumer 1, whose link is lost, has taken
\* nothing, not even the welcome message; consumer 2 has taken the messages
\* of both.
C23_Witness ==
    /\ { 1, 2 } \subseteq DOMAIN consumer
    /\ \A r \in { 1, 2 } :
          /\ requests[r].status = 200 /\ requests[r].broadcasted = 2
          /\ GlobalReceivers(r) = { 1, 2 }
          /\ Message(2, "dialpad:event", r, {}) \in consumer[2].got
    /\ consumer[1].link = "broken" /\ consumer[1].got = {}
    /\ HandedTo(1) # {}

-----------------------------------------------------------------------------
(* The registry specification: the disconnect listener as an operation that *)
(* can be applied to a connection more than once                            *)

InitRegistry ==
    /\ WEBHOOK_SECRET = "k1"
    /\ RATE_LIMIT_MAX = MaxRateLimit
    /\ command = "load"
    /\ InitServer
    /\ requests = [r \in 1..MaxFanoutReqs |-> IdleRequest]
    /\ subs = [s \in 1..MaxSubs |-> IdleSub]
    /\ stats = InitStats

NextRegistry ==
    \/ \E c \in 1..MaxFanout : Connection(c)
    \/ \E c \in 1..MaxFanout : Disconnect(c)
    \/ \E c \in 1..MaxFanout : DisconnectAgain(c)

SpecRegistry == InitRegistry /\ [][NextRegistry]_vars

\* C19: deregister is idempotent: a step that runs the disconnect handling
\* for a connection that has already been deregistered (no socket connects
\* or closes in it) leaves the registry and the connected-consumer count as
\* the first run left them.
C19_DeregisterIdempotent ==
    [][rooms' = rooms /\ nextSocket' = nextSocket =>
          clientInfo' = clientInfo /\ connectedClients' = connectedClients]_vars

-----------------------------------------------------------------------------
(* The introspection specification: GET /health and GET /clients served    *)
(* while consumers come and go and submissions are broadcast                *)

InitIntrospection ==
    /\ WEBHOOK_SECRET = "k1"
    /\ RATE_LIMIT_MAX = MaxRateLimit
    /\ command = "load"
    /\ InitServer
    /\ requests = [r \in 1..(MaxFanoutReqs + 1) |-> IdleRequest]
    /\ subs = [s \in 1..MaxSubs |-> IdleSub]
    /\ stats = InitStats

NextIntrospection ==
    \/ \E r \in 1..(MaxFanoutReqs + 1) : Submit(r, StringBody(Token("call")))
    \/ \E r \in 1..(MaxFanoutReqs + 1) : WebhookLimiter(r)
    \/ \E r \in 1..(MaxFanoutReqs + 1) : WebhookHandler(r)
    \/ \E c \in 1..MaxSubscribers : Connection(c)
    \/ \E c \in 1..MaxSubscribers : Quiet /\ Cardinality(Replies) < MaxReplies /\ Ping(c)
    \/ \E c \in 1..MaxSubscribers : Disconnect(c)
    \/ Health
    \/ Clients

SpecIntrospection == InitIntrospection /\ [][NextIntrospection]_vars

\* C33: a step that serves GET /health or GET /clients changes nothing but
\* the response it produces: the registry, the connected-consumer count,
\* every delivered counter and the limiter's window stay as they were, and
\* the response reports the state as it is.
C33_IntrospectionReadOnly ==
    [][probe' # probe =>
          /\ UNCHANGED << clientInfo, connectedClients, rooms, subscribedTypes, store,
                          rateLimitWarningCount, lastRateLimitWarning, delivered,
                          requests, nextSocket >>
          /\ probe'.endpoint = "health" => probe'.connectedClients = connectedClients
          /\ probe'.endpoint = "clients" =>
                /\ probe'.total = connectedClients
                /\ DOMAIN probe'.clients = DOMAIN clientInfo
                /\ \A c \in DOMAIN clientInfo :
                      probe'.clients[c].eventsReceived = clientInfo[c].eventsReceived]_vars

\* C33 witness: GET /clients was served with a consumer registered that had
\* been delivered an event inside an open window, and all of that is still
\* in place.
C33_Witness ==
    /\ probe.endpoint = "clients" /\ probe.total = 1
    /\ 1 \in DOMAIN probe.clients /\ probe.clients[1].eventsReceived = 1
    /\ 1 \in DOMAIN clientInfo /\ clientInfo[1].eventsReceived = 1
    /\ connectedClients = 1 /\ store.totalHits = 1

\* C36: the connected-consumer counter is the number of entries of the
\* registry and is never negative; the total of a GET /clients response is
\* the length of its clients list, and the broadcasted count of a 200
\* response is the number of consumers registered at the broadcast.
C36_CounterMatchesRegistry ==
    /\ connectedClients = Cardinality(DOMAIN clientInfo)
    /\ connectedClients >= 0
    /\ probe.endpoint = "clients" => probe.total = Cardinality(DOMAIN probe.clients)
    /\ \A r \in Reqs :
          Done(r) /\ requests[r].status = 200 =>
              requests[r].broadcasted = Cardinality(GlobalReceivers(r))

\* C36 witness: a submission was broadcast to two consumers and answered
\* with the count 2, one of them left, and GET /clients then reported a
\* total of 1 with a list of one.
C36_Witness ==
    /\ requests[1].status = 200 /\ requests[1].broadcasted = 2
    /\ GlobalReceivers(1) = { 1, 2 }
    /\ DOMAIN clientInfo = { 2 } /\ connectedClients = 1
    /\ probe.endpoint = "clients" /\ probe.total = 1 /\ DOMAIN probe.clients = { 2 }

-----------------------------------------------------------------------------------------------------------------------------------------------------
(* The shutdown specification: a signal arrives while consumers are         *)
(* connected and submissions are being served.  Once the server is closing  *)
(* it accepts no connection and no request, and goes on serving the         *)
(* requests it has.  The clock keeps running and a due timer fires.         *)

InitShutdown ==
    /\ WEBHOOK_SECRET = "k1"
    /\ RATE_LIMIT_MAX = MaxRateLimit
    /\ command = "load"
    /\ InitServer
    /\ requests = [r \in 1..MaxFanoutReqs |-> IdleRequest]
    /\ subs = [s \in 1..MaxSubs |-> IdleSub]
    /\ stats = InitStats

\* The clock of a process that has not exited: while the server is closing
\* it runs on until the timer of shutdown is due.
Ticking ==
    /\ proc.state # "exited"
    /\ Tick(IF proc.state = "closing"
            THEN ((proc.deadline - Epoch) \div TickMs) + 1
            ELSE MaxTicksPipeline)

NextShutdown ==
    \/ \E c \in 1..MaxSubscribers : proc.state = "running" /\ Connection(c)
    \/ \E c \in 1..MaxSubscribers : Disconnect(c)
    \/ \E r \in 1..MaxFanoutReqs :
          proc.state = "running" /\ Submit(r, StringBody(Token("call")))
    \/ \E r \in 1..MaxFanoutReqs : proc.state # "exited" /\ WebhookLimiter(r)
    \/ \E r \in 1..MaxFanoutReqs : proc.state # "exited" /\ WebhookHandler(r)
    \/ Shutdown
    \/ Closed
    \/ ForcedExit
    \/ Ticking

SpecShutdown ==
    /\ InitShutdown /\ [][NextShutdown]_vars
    /\ WF_vars(Ticking) /\ WF_vars(ForcedExit)

\* C35: the step that handles the signal hands the shutdown notice to every
\* consumer connected at that moment, closes their connections and sets the
\* timer; no connection is closed by the server without the notice; the
\* process exits with 0 only when every connection is closed and no request
\* is being served, with 1 only when 10 seconds have passed since the
\* signal, and once the signal has been handled it always exits.
C35_GracefulShutdown ==
    /\ [][/\ proc.state = "running" /\ proc'.state = "closing" =>
               /\ \A c \in DOMAIN rooms :
                     Message(c, "server:shutdown", 0, {}) \in delivered'
               /\ DOMAIN rooms' = {} /\ DOMAIN clientInfo' = {}
               /\ connectedClients' = 0
               /\ proc'.deadline = now + FORCE_CLOSE_MS
          /\ \A c \in DOMAIN rooms \ DOMAIN rooms' :
               proc'.state # "running" =>
                   Message(c, "server:shutdown", 0, {}) \in delivered'
          /\ proc'.state = "exited" /\ proc.state # "exited" =>
               /\ proc.state = "closing"
               /\ (proc'.exitCode = 0 => DOMAIN rooms = {} /\ InFlight = {})
               /\ (proc'.exitCode = 1 => now >= proc.deadline)
               /\ proc'.exitCode \in { 0, 1 }
          /\ proc.state = "exited" => proc' = proc]_vars
    /\ [](proc.state # "running" => DOMAIN rooms = {} /\ connectedClients = 0)
    /\ (proc.state = "closing" ~> proc.state = "exited")

\* C35 witness: the process exited with 0 after both consumers had been
\* handed the notice and their connections were closed.
C35_Witness ==
    /\ proc.state = "exited" /\ proc.exitCode = 0
    /\ nextSocket = 3 /\ DOMAIN rooms = {}
    /\ \A c \in { 1, 2 } : Message(c, "server:shutdown", 0, {}) \in delivered

\* A forced exit: a request was still being served ten seconds after the
\* signal and the process exited with 1.
C35_ForcedWitness ==
    /\ proc.state = "exited" /\ proc.exitCode = 1
    /\ InFlight # {}

-----
(* The retry client: test-rate-limit-retry.js *)

MAX_RETRIES == 5
INITIAL_RETRY_DELAY == 1000
MAX_RETRY_DELAY == 60000

RECURSIVE Pow2(_)
Pow2(k) == IF k = 0 THEN 1 ELSE 2 * Pow2(k - 1)

\* Mutant: the delay is not clamped.
BaseDelayUnclamped(attempt) == INITIAL_RETRY_DELAY * Pow2(attempt)

\* delay: Math.min(INITIAL_RETRY_DELAY * Math.pow(2, attempt), MAX_RETRY_DELAY)
BaseDelay(attempt) == Min(INITIAL_RETRY_DELAY * Pow2(attempt), MAX_RETRY_DELAY)

\* if (retryAfter): undefined and 0 are falsy
Truthy(retryAfter) == retryAfter \notin { NoRetryAfter, 0 }

\* Mutant: the jitter is a share of the delay.
calculateRetryDelayScaled(attempt, retryAfter, jitter) ==
    IF Truthy(retryAfter)
    THEN retryAfter * 1000
    ELSE BaseDelay(attempt) + jitter * Pow2(attempt)

\* Mutant: the delay is always computed, whatever the response supplied.
calculateRetryDelayLocal(attempt, retryAfter, jitter) == BaseDelay(attempt) + jitter

\* calculateRetryDelay(attempt, retryAfter), jitter being Math.random() * 1000
calculateRetryDelay(attempt, retryAfter, jitter) ==
    IF Truthy(retryAfter)
    THEN retryAfter * 1000
    ELSE BaseDelay(attempt) + jitter

\* Mutant: every rejection is retried.
MayRetryAlways(attempt) == TRUE

\* attempt < MAX_RETRIES
MayRetry(attempt) == attempt < MAX_RETRIES

\* Mutant: server errors are retried like rate limits.
RetryableOrServerError(status) == status \in { 429, 500 }

\* status === 429
Retryable(status) == status = 429

Jitters == { 0, 999 }

\* What a request can come back with: an HTTP status, or 0 for a transport
\* error or timeout (no error.response).
Statuses == { 200, 201, 400, 401, 429, 500, 0 }

\* response.data of an answer: the JSON object of res.json({ .. })
ResponseData == { "object" }

\* axios resolves the post for a 2xx status and rejects it for any other.
Resolves(status) == status >= 200 /\ status < 300

\* error.response.data?.retryAfter || error.response.headers['retry-after']
\* of a 429: none, or the limiter's
RetryAfters == { NoRetryAfter, RetryAfter }

\* The submissions of batch b of loadTest(MaxSubs, BatchSize), b = 0, 1, ..
Batch(b) == { s \in 1..MaxSubs : (s - 1) \div BatchSize = b }
Batches == 0..((MaxSubs - 1) \div BatchSize)

\* Mutant: a batch is sent without awaiting the batches before it.
StartBatchEarly(b) ==
    /\ \A s \in Batch(b) : subs[s].pc = "idle"
    /\ \A q \in 1..MaxSubs : (q - 1) \div BatchSize < b => subs[q].pc # "idle"
    /\ stats' = [stats EXCEPT !.sent = @ + Cardinality(Batch(b))]
    /\ subs' = [s \in 1..MaxSubs |->
                   IF s \in Batch(b)
                   THEN [subs[s] EXCEPT !.pc = "inflight", !.sent = 1]
                   ELSE subs[s]]
    /\ UNCHANGED << now, serverVars >>

\* loadTest sends batch b: for each of its submissions stats.sent++ and
\* sendWebhookWithRetry(event, index), which signs the event and posts it.
\* The batches before it were awaited with Promise.all.
StartBatch(b) ==
    /\ \A s \in Batch(b) : subs[s].pc = "idle"
    /\ \A q \in 1..MaxSubs : (q - 1) \div BatchSize < b => subs[q].pc = "done"
    /\ stats' = [stats EXCEPT !.sent = @ + Cardinality(Batch(b))]
    /\ subs' = [s \in 1..MaxSubs |->
                   IF s \in Batch(b)
                   THEN [subs[s] EXCEPT !.pc = "inflight", !.sent = 1]
                   ELSE subs[s]]
    /\ UNCHANGED << now, serverVars >>

\* The awaited axios.post settles: the success path, or the catch block.
\* On the success path stats.success is incremented before
\* response.data.broadcasted is read; for a null response.data that read
\* throws a TypeError, which has no response, and the catch block counts a
\* failure as well.
Settle(s, status, retryAfter, jitter, data) ==
    /\ subs[s].pc = "inflight"
    /\ IF Resolves(status) /\ data = "null"
       THEN /\ stats' = [stats EXCEPT !.success = @ + 1, !.failed = @ + 1]
            /\ subs' = [subs EXCEPT ![s] =
                   [@ EXCEPT !.pc = "done", !.status = status, !.outcome = "TypeError"]]
       ELSE IF Resolves(status)
       THEN /\ stats' = [stats EXCEPT !.success = @ + 1]
            /\ subs' = [subs EXCEPT ![s] =
                   [@ EXCEPT !.pc = "done", !.status = status, !.outcome = "success"]]
       ELSE IF status # 0 /\ Retryable(status)
       THEN IF MayRetry(subs[s].attempt)
            THEN /\ stats' = [stats EXCEPT !.rateLimited = @ + 1, !.retried = @ + 1]
                 /\ subs' = [subs EXCEPT ![s] =
                        [@ EXCEPT !.pc = "sleeping", !.status = status,
                                  !.retryAfter = retryAfter, !.jitter = jitter,
                                  !.since = now,
                                  !.delay = calculateRetryDelay(subs[s].attempt,
                                                                retryAfter, jitter)]]
            ELSE /\ stats' = [stats EXCEPT !.rateLimited = @ + 1, !.failed = @ + 1]
                 /\ subs' = [subs EXCEPT ![s] =
                        [@ EXCEPT !.pc = "done", !.status = status,
                                  !.outcome = "Max retries exceeded"]]
       ELSE /\ stats' = [stats EXCEPT !.failed = @ + 1]
            /\ subs' = [subs EXCEPT ![s] =
                   [@ EXCEPT !.pc = "done", !.status = status,
                             !.outcome = IF status = 0 THEN "transport error"
                                         ELSE "HTTP error"]]
    /\ UNCHANGED << now, serverVars >>

\* sleep(delay) is over: sendWebhookWithRetry(event, index, attempt + 1)
\* signs the event again and posts it.
Resubmit(s) ==
    /\ subs[s].pc = "sleeping"
    /\ subs' = [subs EXCEPT ![s] =
           [@ EXCEPT !.pc = "inflight", !.attempt = @ + 1, !.sent = @ + 1]]
    /\ UNCHANGED << now, serverVars, stats >>

InitRetry ==
    /\ WEBHOOK_SECRET = "k1"
    /\ RATE_LIMIT_MAX = 1
    /\ command = "load"
    /\ InitServer
    /\ requests = [r \in 1..MaxReqs |-> IdleRequest]
    /\ subs = [s \in 1..MaxSubs |-> IdleSub]
    /\ stats = InitStats

\* The first batch of a run.  The requests of its first submission meet
\* every response (the jitter is drawn only when the delay is computed from
\* it); those of the others are answered 200, or 429 with the limiter's
\* retryAfter.
NextRetry ==
    \/ StartBatch(0)
    \/ \E status \in Statuses, retryAfter \in RetryAfters, jitter \in Jitters,
          data \in ResponseData :
          /\ status # 429 => retryAfter = NoRetryAfter /\ jitter = 0
          /\ Truthy(retryAfter) => jitter = 0
          /\ ~Resolves(status) => data = "object"
          /\ Settle(1, status, retryAfter, jitter, data)
    \/ \E s \in 2..MaxSubs, status \in { 200, 429 } :
          Settle(s, status, IF status = 429 THEN RetryAfter ELSE NoRetryAfter, 0, "object")
    \/ \E s \in 1..MaxSubs : Resubmit(s)

SpecRetry == InitRetry /\ [][NextRetry]_vars

\* A whole run, batch after batch, against a server that answers 200 or a
\* 429 carrying the limiter's retryAfter.
NextBatches ==
    \/ \E b \in Batches : StartBatch(b)
    \/ \E s \in 1..MaxSubs, status \in { 200, 429 } :
          Settle(s, status, IF status = 429 THEN RetryAfter ELSE NoRetryAfter, 0, "object")
    \/ \E s \in 1..MaxSubs : Resubmit(s)

SpecBatches == InitRetry /\ [][NextBatches]_vars

\* The delay function on its own: calculateRetryDelay applied to every
\* attempt number up to MaxAttempt, by the submissions of one batch.
Compute(s, attempt, retryAfter, jitter) ==
    /\ subs' = [subs EXCEPT ![s] =
           [@ EXCEPT !.pc = "sleeping", !.status = 429, !.attempt = attempt,
                     !.retryAfter = retryAfter, !.jitter = jitter,
                     !.delay = calculateRetryDelay(attempt, retryAfter, jitter)]]
    /\ UNCHANGED << now, serverVars, stats >>

NextBackoff ==
    \E s \in 1..BatchSize, attempt \in 0..MaxAttempt, retryAfter \in RetryAfters,
       jitter \in Jitters :
        /\ Truthy(retryAfter) => jitter = 0
        /\ Compute(s, attempt, retryAfter, jitter)

SpecBackoff == InitRetry /\ [][NextBackoff]_vars

-----------------------------------------------------------------------------
(* Properties of the retry client *)

Subs == DOMAIN subs

\* Submission s is waiting for a delay it computed itself.
Backoff(s) == subs[s].pc = "sleeping" /\ ~Truthy(subs[s].retryAfter)

\* 1s, 2s, 4s, 8s, 16s, 32s, then 60s, in milliseconds
ExpectedBase(k) == IF k <= 5 THEN 1000 * 2^k ELSE 60000

\* C24: a submission that waits after a 429 which supplied a retryAfter
\* waits exactly that many seconds, and only one whose 429 supplied none
\* waits for a computed backoff delay.
C24_RetryAfterVerbatim ==
    \A s \in Subs :
        subs[s].pc = "sleeping" =>
            IF subs[s].retryAfter # NoRetryAfter
            THEN subs[s].delay = subs[s].retryAfter * 1000
            ELSE subs[s].delay - subs[s].jitter = ExpectedBase(subs[s].attempt)

\* C24 witness: the second submission waits the 60 s the limiter's 429
\* supplied; the first, whose second 429 supplied nothing, waits the 2 s
\* of attempt 1 and its jitter.
C24_Witness ==
    /\ subs[2].pc = "sleeping" /\ subs[2].retryAfter = RetryAfter
    /\ subs[2].attempt = 0 /\ subs[2].delay = 60000
    /\ subs[1].pc = "sleeping" /\ subs[1].retryAfter = NoRetryAfter
    /\ subs[1].attempt = 1 /\ subs[1].jitter = 999 /\ subs[1].delay = 2999

\* C25 as stated: the base delay of attempts 0..4 is 1s, 2s, 4s, 8s, 16s,
\* that of attempt 6 is 32s and that of attempt 7 is 60s.
C25_BaseDelayAsStated ==
    \A s \in Subs :
        Backoff(s) /\ subs[s].jitter = 0 =>
            /\ subs[s].attempt \in 0..4 => subs[s].delay = 1000 * 2^(subs[s].attempt)
            /\ subs[s].attempt = 6 => subs[s].delay = 32000
            /\ subs[s].attempt = 7 => subs[s].delay = 60000

\* C25 amended: the base delay of attempt k is min(1s * 2^k, 60s): 1s, 2s,
\* 4s, 8s, 16s for attempts 0..4, 32s for attempt 5, and 60s (clamped) for
\* attempt 6 and every later one.
C25_BaseDelayClamped ==
    \A s \in Subs :
        Backoff(s) /\ subs[s].jitter = 0 =>
            /\ subs[s].attempt \in 0..5 => subs[s].delay = 1000 * 2^(subs[s].attempt)
            /\ subs[s].attempt >= 6 => subs[s].delay = 60000

\* C25 witness: attempt 6 was computed without jitter and gave 60s, attempt
\* 5 gave 32s.
C25_Witness ==
    /\ Backoff(1) /\ subs[1].attempt = 6 /\ subs[1].jitter = 0 /\ subs[1].delay = 60000
    /\ Backoff(2) /\ subs[2].attempt = 5 /\ subs[2].jitter = 0 /\ subs[2].delay = 32000

\* C26: a computed wait is the clamped base delay plus the jitter drawn,
\* which lies in [0, 1s) whatever the attempt: the wait is in
\* [base, base + 1s) and never below the base.
C26_JitterRange ==
    \A s \in Subs :
        Backoff(s) =>
            /\ subs[s].delay - ExpectedBase(subs[s].attempt) = subs[s].jitter
            /\ subs[s].delay - ExpectedBase(subs[s].attempt) \in 0..999
            /\ subs[s].delay >= ExpectedBase(subs[s].attempt)

\* C26 witness: the largest jitter on the clamped delay of attempt 7 and on
\* the delay of attempt 0.
C26_Witness ==
    /\ Backoff(1) /\ subs[1].attempt = 7 /\ subs[1].delay = 60999
    /\ Backoff(2) /\ subs[2].attempt = 0 /\ subs[2].delay = 1999

\* C27: against this server (every 429 carries the limiter's retryAfter) a
\* submission waits about 1s before its first retry, about 2s before its
\* second, then 4s, 8s, 16s, each plus under 1s of jitter.
C27_DocumentedWaits ==
    \A s \in Subs :
        subs[s].pc = "sleeping" /\ subs[s].retryAfter = RetryAfter =>
            subs[s].delay - ExpectedBase(subs[s].attempt) \in 0..999

\* C28: only a 429 is retried.  A request is sent again only by a
\* submission that is waiting after a 429; any other status, or a transport
\* error, ends the submission at once as failed; a finished submission
\* sends nothing more.
C28_OnlyRateLimitRetried ==
    /\ [](\A s \in Subs :
            /\ subs[s].pc = "done" /\ subs[s].status \in { 400, 401, 500, 0 } =>
                  subs[s].outcome \in { "HTTP error", "transport error" }
            /\ subs[s].pc = "sleeping" => subs[s].status = 429)
    /\ [][\A s \in Subs :
            /\ subs[s].sent >= 1 /\ subs'[s].sent # subs[s].sent =>
                  /\ subs[s].pc = "sleeping" /\ subs[s].status = 429
                  /\ subs'[s].sent = subs[s].sent + 1
            /\ subs[s].pc = "done" => subs'[s] = subs[s]
            /\ subs[s].pc = "inflight" /\ subs'[s].status \in { 400, 401, 500, 0 }
                  /\ subs'[s] # subs[s] =>
                  /\ subs'[s].pc = "done" /\ stats'.failed = stats.failed + 1
                  /\ stats'.retried = stats.retried]_vars

\* C28 witness: the first submission was rate limited, retried and then
\* refused with 500, which ended it as failed after two requests.
C28_Witness ==
    /\ subs[1].pc = "done" /\ subs[1].status = 500 /\ subs[1].sent = 2
    /\ subs[1].outcome = "HTTP error"
    /\ stats.retried = 1 /\ stats.failed = 1

\* The batch of submission s.
BatchOf(s) == (s - 1) \div BatchSize

\* C29 as stated: while one submission waits to retry, every other
\* submission of the run can still be sent, or can complete.
C29_NothingBlocked ==
    \A s \in Subs : \A t \in Subs \ { s } :
        subs[s].pc = "sleeping" =>
            /\ subs[t].pc = "idle" => ENABLED StartBatch(BatchOf(t))
            /\ subs[t].pc = "inflight" => ENABLED Settle(t, 200, NoRetryAfter, 0, "object")

\* C29 amended: while one submission waits to retry, the other submissions
\* of its batch have been sent and can complete or retry, and no step of
\* another submission touches the waiting one; the submissions of the later
\* batches are not sent until every submission of the batch has finished.
C29_IndependentWithinBatch ==
    /\ [](\A s \in Subs : \A t \in Subs \ { s } :
            subs[s].pc = "sleeping" =>
                /\ BatchOf(t) = BatchOf(s) =>
                      /\ subs[t].pc # "idle"
                      /\ subs[t].pc = "inflight" => ENABLED Settle(t, 200, NoRetryAfter, 0, "object")
                      /\ subs[t].pc = "sleeping" => ENABLED Resubmit(t)
                /\ BatchOf(t) > BatchOf(s) =>
                      subs[t].pc = "idle" /\ ~ENABLED StartBatch(BatchOf(t)))
    /\ [][\A s \in Subs : \A t \in Subs \ { s } :
            subs[s].pc = "sleeping" /\ subs'[t] # subs[t] => subs'[s] = subs[s]]_vars

\* C29 witness: the first submission waits to retry, the second, sent with
\* it, has succeeded, and the third, of the next batch, has not been sent.
C29_Witness ==
    /\ subs[1].pc = "sleeping"
    /\ subs[2].pc = "done" /\ subs[2].outcome = "success"
    /\ BatchOf(3) = 1 /\ subs[3].pc = "idle"

\* C30: when a request has been retried several times, the retries counted
\* (stats.retried) exceed the rate-limited responses counted
\* (stats.rateLimited).
C30_RetriedExceedsRateLimited ==
    (\E s \in Subs : subs[s].attempt >= 2) => stats.retried > stats.rateLimited

-----------------------------------------------------------------------------
(* The run specification: the load test against the server, its WebSocket   *)
(* client connected before the first batch.  The clock's steps of TickMs    *)
(* are taken while a submission sleeps; everything else is short beside     *)
(* them.                                                                    *)

\* generateTestEvent(index): the event of that index, its type taken from
\* eventTypes in turn and its data that of a call
generateTestEvent(index) == TestEvents[index + 1]

\* jwt.sign(event, SECRET, { algorithm: 'HS256' }) of submission s, posted as
\* text
BodyOf(s) == StringBody(JwtSign(generateTestEvent(s - 1), "k1", "HS256"))

\* The requests of submission s that have reached the server, and the last
\* of them.
RequestsOf(s) ==
    { r \in DOMAIN requests : requests[r].pc # "idle" /\ requests[r].body = BodyOf(s) }
Current(s) == CHOOSE r \in RequestsOf(s) : \A q \in RequestsOf(s) : q <= r

\* A request posted by submission s reaches the server.
Post(s) ==
    /\ subs[s].sent > Cardinality(RequestsOf(s))
    /\ \E r \in DOMAIN requests : Submit(r, BodyOf(s))

\* The server's answer to the request of submission s reaches the client.
Response(s) ==
    /\ subs[s].pc = "inflight"
    /\ subs[s].sent = Cardinality(RequestsOf(s))
    /\ requests[Current(s)].pc = "done"
    /\ Settle(s, requests[Current(s)].status,
              IF requests[Current(s)].status = 429
              THEN requests[Current(s)].retryAfter ELSE NoRetryAfter, 0, "object")

\* axios gives up on the request (timeout: 10000, or the connection is
\* lost): the error has no response.  In a run the first submission stands
\* for the ones this happens to.
Timeout(s) == Settle(s, 0, NoRetryAfter, 0, "object")

InitRun ==
    /\ WEBHOOK_SECRET = "k1"
    /\ RATE_LIMIT_MAX = MaxRateLimit
    /\ command \in Commands
    /\ InitServer
    /\ requests = [r \in 1..MaxRunReqs |-> IdleRequest]
    /\ subs = [s \in 1..MaxSubs |-> IdleSub]
    /\ stats = InitStats

\* The sleep of submission s is over at the clock's reading.
Slept(s) == now >= subs[s].since + subs[s].delay

\* stats.endTime = Date.now(), once every batch has been awaited
EndRun ==
    /\ \A s \in 1..MaxSubs : subs[s].pc = "done"
    /\ stats.endTime = 0
    /\ stats' = [stats EXCEPT !.endTime = now]
    /\ UNCHANGED << now, serverVars, subs >>

\* The wait for WebSocket events before the results are printed:
\* sleep(2000) in loadTest, sleep(3000) in stressTest.
ResultsWait(cmd) == IF cmd = "stress" THEN 3000 ELSE 2000

\* wsClient.disconnect() after the wait and printResults: the client closes
\* its socket and takes nothing more.  The counters of stats stay as they
\* are; the server has not noticed yet.
Cleanup ==
    /\ stats.endTime # 0
    /\ now >= stats.endTime + ResultsWait(command)
    /\ 1 \in DOMAIN consumer
    /\ consumer[1].link = "open"
    /\ consumer' = [consumer EXCEPT ![1].link = "closed"]
    /\ UNCHANGED << WEBHOOK_SECRET, RATE_LIMIT_MAX, command, proc, probe, now, store, rateLimitWarningCount,
                    lastRateLimitWarning, connectedClients, clientInfo, rooms,
                    subscribedTypes, nextSocket, delivered, requests, subs, stats >>

\* The server learns that the client's socket has closed: Socket.IO takes
\* the socket out of its rooms and runs the disconnect listener.
ServerNotices == 1 \in DOMAIN consumer /\ consumer[1].link = "closed" /\ Disconnect(1)

\* A run of the test script: loadTest (commands load and simple) or
\* stressTest, which send their submissions in the same batches, each
\* awaited with Promise.all before the next.  The WebSocket client connects
\* before the first batch is sent, or fails to and the run goes on without
\* it (reconnection: false); it is disconnected at the end, and the server
\* runs its listener some time after that.
NextRun ==
    \/ nextSocket = 1 /\ stats.sent = 0 /\ Connection(1)
    \/ \E b \in Batches : StartBatch(b)
    \/ \E s \in 1..MaxSubs : Post(s)
    \/ \E r \in 1..MaxRunReqs : WebhookLimiter(r)
    \/ \E r \in 1..MaxRunReqs : WebhookHandler(r)
    \/ \E s \in 1..MaxSubs : Response(s)
    \/ Timeout(1)
    \/ \E s \in 1..MaxSubs : Slept(s) /\ Resubmit(s)
    \/ Receive(1)
    \/ EndRun
    \/ Cleanup
    \/ ServerNotices
    \/ /\ \/ \E s \in 1..MaxSubs : subs[s].pc = "sleeping"
          \/ stats.endTime # 0 /\ 1 \in DOMAIN rooms
       /\ Tick(MaxTicks)

SpecRun == InitRun /\ [][NextRun]_vars

\* The dialpad:event messages the WebSocket client has counted
WebsocketReceived == stats.websocketReceived

\* Every submission has finished, the server has answered every request it
\* was sent, and the client has taken every message it was handed.
RunOver ==
    /\ \A s \in Subs : subs[s].pc = "done" /\ subs[s].sent = Cardinality(RequestsOf(s))
    /\ \A r \in Reqs : requests[r].pc \in { "idle", "done" }
    /\ 1 \in DOMAIN consumer /\ consumer[1].got = HandedTo(1)

\* The submissions counted as failed for want of a response, one of whose
\* requests the server accepted all the same.
LostResponses ==
    { s \in Subs : /\ subs[s].outcome = "transport error"
                   /\ \E r \in RequestsOf(s) : requests[r].status = 200 }

\* C31 as stated: at the end of a run the consumer has received as many
\* dialpad:event messages as the client counts successes.
C31_MatchRate ==
    RunOver => WebsocketReceived = stats.success

\* C31 amended: every submission counted as successful was broadcast to the
\* consumer exactly once, no submission is broadcast twice, and at the end
\* of a run the events received are the successes plus the submissions
\* that were accepted but whose response never reached the client.
C31_SuccessesBroadcast ==
    /\ \A s \in Subs :
          /\ Cardinality({ r \in RequestsOf(s) : requests[r].status = 200 }) <= 1
          /\ subs[s].outcome = "success" =>
                /\ requests[Current(s)].status = 200
                /\ nextSocket > 1 =>
                      Message(1, "dialpad:event", Current(s), {}) \in delivered
    /\ stats.success = Cardinality({ s \in Subs : subs[s].outcome = "success" })
    /\ RunOver =>
          WebsocketReceived = stats.success + Cardinality(LostResponses)

\* C31 witness: the run is over; the first submission was accepted after
\* the client had given up on it, the second succeeded, the third was rate
\* limited, retried and then succeeded; three events were received for two
\* successes.
C31_Witness ==
    /\ RunOver
    /\ LostResponses = { 1 }
    /\ subs[2].outcome = "success" /\ subs[2].sent = 1
    /\ subs[3].outcome = "success" /\ subs[3].sent = 2
    /\ WebsocketReceived = 3 /\ stats.success = 2

-----------------------------------------------------------------------------
(* The termination specification: a whole run in which every request is     *)
(* eventually answered or times out and every sleep ends                    *)

\* The request of the first submission settles, with any response.
AnswerFirst ==
    \E status \in Statuses, retryAfter \in RetryAfters, jitter \in Jitters,
       data \in ResponseData :
        /\ status # 429 => retryAfter = NoRetryAfter /\ jitter = 0
        /\ Truthy(retryAfter) => jitter = 0
        /\ ~Resolves(status) => data = "object"
        /\ Settle(1, status, retryAfter, jitter, data)

\* The request of another submission settles: 200, or the limiter's 429.
AnswerOther(s) ==
    \E status \in { 200, 429 } :
        Settle(s, status, IF status = 429 THEN RetryAfter ELSE NoRetryAfter, 0, "object")

NextTermination ==
    \/ \E b \in Batches : StartBatch(b)
    \/ AnswerFirst
    \/ \E s \in 2..MaxSubs : AnswerOther(s)
    \/ \E s \in 1..MaxSubs : Resubmit(s)

SpecTermination ==
    /\ InitRetry /\ [][NextTermination]_vars
    /\ WF_vars(AnswerFirst)
    /\ \A s \in 2..MaxSubs : WF_vars(AnswerOther(s))
    /\ \A s \in 1..MaxSubs : WF_vars(Resubmit(s))
    /\ \A b \in Batches : WF_vars(StartBatch(b))

Finished == { s \in Subs : subs[s].pc = "done" }

\* C38: every call that was started ends, with one outcome that is counted
\* once as a success or as a failure and never changes, after at most
\* MAX_RETRIES + 1 requests; when every submission of the run has finished,
\* stats.sent = stats.success + stats.failed.
C38_Terminates ==
    /\ [](/\ \A s \in Subs :
               /\ subs[s].sent <= MAX_RETRIES + 1
               /\ subs[s].pc = "done" <=> subs[s].outcome # "none"
          /\ stats.success = Cardinality({ s \in Finished : subs[s].outcome = "success" })
          /\ stats.failed = Cardinality({ s \in Finished : subs[s].outcome # "success" })
          /\ Finished = Subs => stats.sent = stats.success + stats.failed)
    /\ [][\A s \in Subs : subs[s].pc = "done" => subs'[s] = subs[s]]_vars
    /\ \A s \in 1..MaxSubs : (subs[s].pc = "inflight" ~> subs[s].pc = "done")
    /\ <>(Finished = Subs)

\* C38 witness: the run is over; the first submission was rate limited on
\* each of its MAX_RETRIES + 1 requests and failed, the others succeeded.
C38_Witness ==
    /\ Finished = Subs
    /\ subs[1].outcome = "Max retries exceeded" /\ subs[1].sent = MAX_RETRIES + 1
    /\ \A s \in Subs \ { 1 } : subs[s].outcome = "success"
    /\ stats.sent = MaxSubs /\ stats.success = MaxSubs - 1 /\ stats.failed = 1

\* C3: a submission answered 429 on every attempt is reported as
\* "Max retries exceeded" after exactly 5 requests.
C3_FiveRequests ==
    \A s \in DOMAIN subs :
        subs[s].outcome = "Max retries exceeded" => subs[s].sent = 5

====
